---------------------------- MODULE Spec2Model ----------------------------
(***************************************************************************)
(* Verification model of the Eres OS kernel core.                          *)
(*                                                                         *)
(* Components modelled here, each with its own specification:              *)
(*   SpecFrame   - memory/frame_allocator.rs  (FrameAllocator)             *)
(*   SpecHeap    - memory/heap.rs             (BumpCursor, kernel_heap)    *)
(*   SpecKbd     - arch/x86_64/keyboard.rs    (ring and scancode decoder)  *)
(*   SpecCache   - storage/cache.rs           (CachedBlockDevice)          *)
(*                                                                         *)
(* TLC's integers are 32 bits wide, so the machine word (u64 / usize) is   *)
(* modelled as AddrBits bits: every wrapping or saturating operation of    *)
(* the source is computed modulo U64 = 2^AddrBits.  Values that the        *)
(* source places "at the top of the address space" are written relative    *)
(* to U64.                                                                 *)
(***************************************************************************)
EXTENDS Integers, Sequences, FiniteSets, TLC

VARIABLES
    \* ---- FrameAllocator (frame_allocator.rs:29-35) ----
    regions,          \* &[MemoryMapEntry], firmware insertion order
    min_addr,         \* lower clip of every region
    region_index,     \* index of the next map entry to look at (0-based)
    next_addr,        \* bump cursor inside the current region
    region_end,       \* end of the current region
    overflow_checks,  \* build profile: TRUE = `+` panics on overflow, FALSE = wraps
    panicked,         \* an arithmetic-overflow panic has halted the kernel
    frames,           \* history: starts of the frames returned by alloc, in call order
    frame_src,        \* history: region_index at the time each frame was returned
    last_frame,       \* result of the most recent alloc call
    n_allocs,         \* number of alloc calls made so far
    \* ---- kernel heap (heap.rs) ----
    heap_space,       \* address of the static HEAP_SPACE array (chosen by the linker)
    cursor,           \* BumpCursor {start, end, next}
    HEAP_READY,       \* kernel_heap::HEAP_READY
    heap_log,         \* history: every BumpCursor::alloc call, [ptr, size, align, inits]
    init_calls,       \* number of kernel_heap::init calls made so far
    \* ---- keyboard (keyboard.rs) ----
    kbd,              \* KeyboardState {shift, e0_prefix, head, tail, buffer}
    accepted,         \* history: events stored into the ring since the last clear_buffer
    delivered,        \* history: events returned by try_read_key since the last clear_buffer
    last_feed,        \* history: the last scancode fed, the event it pushed, and whether it was stored
    n_feeds,          \* number of scancodes fed so far
    n_events,         \* number of events pushed so far (stored or dropped)
    \* ---- sector cache (cache.rs) ----
    lines,            \* CachedBlockDevice.lines: Vec<CacheLine>
    ticks,            \* CachedBlockDevice.ticks
    hits,             \* CachedBlockDevice.hits
    misses,           \* CachedBlockDevice.misses
    inner_calls,      \* history: number of read_sector calls made on the inner device
    inner_faults,     \* history: number of those calls that failed
    last_read,        \* history: the last cache read_sector call and its result
    n_reads,          \* number of cache read_sector calls made so far
    cache_capacity,   \* history: the capacity argument of CachedBlockDevice::new
    read_log,         \* history: every 512-byte read_sector call, in call order
    \* ---- simplefs-core codec (crates/simplefs-core/src/lib.rs) ----
    codec_checks,     \* build profile of the crate: TRUE = `+` panics on overflow
    codec_in,         \* the value handed to encode (a Superblock or a DirEntry)
    codec_buf,        \* the bytes encode produced
    codec_out,        \* what decode returned for codec_buf
    \* ---- SimpleFs over a block device (fs/simplefs.rs) ----
    disk,             \* the device's sectors, each BLOCK_SIZE bytes
    faulty,           \* the lba at which the device reports DeviceFault (-1: none)
    fs,               \* the result of SimpleFs::mount (superblock and entries)
    fs_op,            \* history: the last FileSystem call and its result
    built_from,       \* history: the host files the disk image was built from
    \* ---- path resolution (fs/vfs.rs) ----
    path_in,          \* the path handed to split_path / resolve_path
    path_op,          \* which of the two was called ("none" before the call)
    path_out,         \* the Result it returned
    fs_calls,         \* history: the FileSystem calls resolve_path made, in order
    \* ---- shell command parser (shell.rs) ----
    line_in,          \* the line handed to parse_command, and the parts it was typed from
    parsed,           \* the ParsedCommand it returned
    \* ---- shell main loop (shell.rs, fn run) ----
    line_buf,         \* [u8; MAX_LINE]
    line_len,         \* `len`: the number of bytes of line_buf in use
    history,          \* Vec<Vec<u8>>, oldest first
    history_index,    \* Option<usize>
    exec_out,         \* history: the most recent execute_command and what it wrote
    shell_hung,       \* a command that never returns (panic, halt, reboot) was executed
    \* ---- ATA PIO driver (storage/ata_pio.rs) ----
    ata_pc,           \* where AtaPio::read_sector stands: "idle", "polling", "data", "done"
    ata_req,          \* the lba and out.len() of the call
    ata_ports,        \* history: the port writes of the call, <<port, value>>
    ata_statuses,     \* history: the status bytes read from 0x1F7, in order
    ata_words,        \* history: the number of words read from 0x1F0
    ata_out,          \* the out buffer
    ata_result,       \* what read_sector returned
    \* ---- CPU, IDT, PIC and PIT (arch/x86_64.rs, interrupts.rs, pic.rs, pit.rs) ----
    interrupt_flag,   \* RFLAGS.IF
    cpu_hung,         \* a fatal handler has entered hang()
    idt,              \* the vectors whose IDT gate is present
    TICKS,            \* pit::TICKS
    port_log,         \* history: what the most recent interrupt_dispatch did, in order
    last_vector,      \* history: the vector raised and the vector dispatched
    n_irqs,           \* number of interrupts and exceptions raised so far
    \* ---- the mainline inside keyboard::try_read_key ----
    trk_pc,           \* "idle", "saved", "disabled", "read"
    trk,              \* was_enabled, and history: the flag at entry and at the ring access
    \* ---- boot information (memory/bootinfo.rs) ----
    BOOT_INFO_PTR,    \* the registered address (0: null)
    boot_raw,         \* the BootInfoRaw the boot loader left at BootInfoAddr
    ub_checks,        \* build profile: TRUE = unsafe preconditions are asserted
    boot_log,         \* history: the record at boot, whether set_boot_info ran, and
                      \* the pointer the most recent boot_info() loaded
    boot_out,         \* what the most recent boot_info() returned
    \* ---- the process-wide frame allocator (memory/frame_allocator.rs) ----
    FRAME_ALLOCATOR_READY,
    ALLOCATED_FRAMES,
    af_pc,            \* the mainline inside alloc_frame: "idle", "alloc", "count"
    af,               \* the frame in hand, and history: the flag at entry, the returns
    TOTAL_FRAMES,
    stats_out,        \* what the most recent stats() returned
    \* ---- the mainline: kernel_main, keyboard_smoke_test, shell::run (lib.rs) ----
    km_pc,            \* where the mainline stands
    km_arg,           \* boot_info_ptr, the argument of kernel_main
    km_trace,         \* history: what kernel_main has done, in order
    smoke,            \* keyboard_smoke_test: the loop index and `ok`
    inj,              \* feed_scancode on the mainline: the scancode, the state it
                      \* has read, and history: whether a handler ran in between
    halted,           \* the CPU sleeps in hlt
    sh_key            \* the key try_read_key returned to run()

frameVars == <<regions, min_addr, region_index, next_addr, region_end,
               overflow_checks, panicked, frames, frame_src, last_frame, n_allocs>>

heapVars == <<heap_space, cursor, HEAP_READY, heap_log, init_calls>>

kbdVars == <<kbd, accepted, delivered, last_feed, n_feeds, n_events>>

cacheVars == <<lines, ticks, hits, misses, inner_calls, inner_faults, last_read, n_reads,
               cache_capacity, read_log>>

codecVars == <<codec_checks, codec_in, codec_buf, codec_out>>

fsVars == <<disk, faulty, fs, fs_op, built_from>>

pathVars == <<path_in, path_op, path_out, fs_calls>>

shellVars == <<line_in, parsed>>

runVars == <<line_buf, line_len, history, history_index, exec_out, shell_hung>>

ataVars == <<ata_pc, ata_req, ata_ports, ata_statuses, ata_words, ata_out, ata_result>>

irqVars == <<interrupt_flag, cpu_hung, idt, TICKS, port_log, last_vector, n_irqs,
             trk_pc, trk>>

bootVars == <<BOOT_INFO_PTR, boot_raw, ub_checks, boot_log, boot_out>>

gallocVars == <<FRAME_ALLOCATOR_READY, ALLOCATED_FRAMES, af_pc, af, TOTAL_FRAMES,
                stats_out>>

mainVars == <<km_pc, km_arg, km_trace, smoke, inj, halted, sh_key>>

\* the state of the parts added to the kernel and library parts below
archVars == <<runVars, ataVars, irqVars, bootVars, gallocVars, mainVars>>

\* the kernel-resident state, and the state of the library parts
kernelVars == <<frameVars, heapVars, kbdVars, cacheVars>>
libVars == <<codecVars, fsVars, pathVars, shellVars, archVars>>

\* everything but one library part
exceptCodec == <<kernelVars, fsVars, pathVars, shellVars, archVars>>
exceptFs == <<kernelVars, codecVars, pathVars, shellVars, archVars>>
exceptPath == <<kernelVars, codecVars, fsVars, shellVars, archVars>>
exceptShell == <<kernelVars, codecVars, fsVars, pathVars, archVars>>
crateVars == <<codecVars, fsVars, pathVars, shellVars>>
archExceptRun == <<crateVars, ataVars, irqVars, bootVars, gallocVars, mainVars>>
exceptRun == <<kernelVars, archExceptRun>>
archExceptAta == <<crateVars, runVars, irqVars, bootVars, gallocVars, mainVars>>
exceptAta == <<kernelVars, archExceptAta>>
archExceptIrq == <<crateVars, runVars, ataVars, bootVars, gallocVars, mainVars>>
exceptIrq == <<kernelVars, archExceptIrq>>
archExceptBoot == <<crateVars, runVars, ataVars, irqVars, gallocVars, mainVars>>
exceptBoot == <<kernelVars, archExceptBoot>>
archExceptGalloc == <<crateVars, runVars, ataVars, irqVars, bootVars, mainVars>>
exceptGalloc == <<kernelVars, archExceptGalloc>>
archExceptMain == <<crateVars, runVars, ataVars, irqVars, bootVars, gallocVars>>
exceptMain == <<kernelVars, archExceptMain>>

vars == <<frameVars, heapVars, kbdVars, cacheVars, libVars>>

-----------------------------------------------------------------------------
(* Word arithmetic *)

\* Width of the modelled machine word (64 in the source).
AddrBits == 23

U64 == 2^AddrBits
U64_MAX == U64 - 1

Max(a, b) == IF a >= b THEN a ELSE b
Min(a, b) == IF a <= b THEN a ELSE b

\* u64::saturating_add
saturating_add(a, b) == IF a + b > U64_MAX THEN U64_MAX ELSE a + b

\* `a + b` on machine words where the build wraps on overflow
wrapping_add(a, b) == (a + b) % U64

\* does the machine addition a + b overflow?
overflows(a, b) == a + b > U64_MAX

-----------------------------------------------------------------------------
(* Frame allocator: memory/frame_allocator.rs *)

FRAME_SIZE == 4096
MIN_ALLOCATABLE_ADDR == 2097152     \* 0x20_0000

\* Option<PhysicalFrame>
NoFrame == [some |-> FALSE, start |-> 0]
SomeFrame(s) == [some |-> TRUE, start |-> s]

\* const fn align_up(value, align): (value + mask) & !mask, for align a power of two.
\* The addition wraps here; callers decide whether the build panics instead.
align_up(value, align) ==
    LET sum == wrapping_add(value, align - 1)
    IN  sum - (sum % align)

\* `region.base.max(self.min_addr)` of select_next_region
region_start(region) == Max(region.base, min_addr)

\* FrameAllocator::select_next_region, started with region_index = idx.
\* Returns the cursor fields it leaves behind.
RECURSIVE select_next_region(_)
select_next_region(idx) ==
    IF idx < Len(regions)
    THEN LET region == regions[idx + 1]
             start  == region_start(region)
             end    == saturating_add(region.base, region.length)
         IN  IF region.entry_type # 1 \/ region.length = 0
             THEN select_next_region(idx + 1)
             ELSE IF start >= end
             THEN select_next_region(idx + 1)
             ELSE [region_index |-> idx + 1, next_addr |-> start, region_end |-> end]
    ELSE [region_index |-> idx, next_addr |-> 0, region_end |-> 0]

\* the negation of `frame_start + FRAME_SIZE > self.region_end`
frame_fits(frame_end, end) == ~(frame_end > end)

\* mutant: the cursor is not advanced past the frame handed out
next_after_stuck(frame_start) == frame_start

\* `self.next_addr = frame_start + FRAME_SIZE`
next_after(frame_start) == wrapping_add(frame_start, FRAME_SIZE)

\* FrameAllocator::alloc, the whole loop.  st holds the cursor fields.
\* Result: the cursor left behind, the Option returned, and whether an
\* overflow panic ended the call (only in a build with overflow checks).
RECURSIVE alloc_loop(_)
alloc_loop(st) ==
    LET s1 == IF st.next_addr >= st.region_end
              THEN select_next_region(st.region_index)
              ELSE st
    IN  IF s1.next_addr >= s1.region_end
        THEN [st |-> s1, frame |-> NoFrame, panic |-> FALSE]
        ELSE LET frame_start == align_up(s1.next_addr, FRAME_SIZE)
                 frame_end   == wrapping_add(frame_start, FRAME_SIZE)
             IN  IF overflow_checks
                    /\ (overflows(s1.next_addr, FRAME_SIZE - 1)
                        \/ overflows(frame_start, FRAME_SIZE))
                 THEN [st |-> s1, frame |-> NoFrame, panic |-> TRUE]
                 ELSE IF ~frame_fits(frame_end, s1.region_end)
                 THEN alloc_loop([s1 EXCEPT !.next_addr = s1.region_end])
                 ELSE [st |-> [s1 EXCEPT !.next_addr = next_after(frame_start)],
                       frame |-> SomeFrame(frame_start), panic |-> FALSE]

\* ---- components that take no part in a specification stay parked ----
FrameIdle ==
    /\ regions = <<>>
    /\ min_addr = MIN_ALLOCATABLE_ADDR
    /\ overflow_checks = FALSE
    /\ region_index = 0
    /\ next_addr = 0
    /\ region_end = 0
    /\ panicked = FALSE
    /\ frames = <<>>
    /\ frame_src = <<>>
    /\ last_frame = NoFrame
    /\ n_allocs = 0

HeapIdle ==
    /\ heap_space = 0
    /\ cursor = [start |-> 0, end |-> 0, next |-> 0]
    /\ HEAP_READY = FALSE
    /\ heap_log = <<>>
    /\ init_calls = 0

KbdIdle ==
    /\ kbd = [shift |-> FALSE, e0_prefix |-> FALSE, head |-> 0, tail |-> 0,
              buffer |-> <<>>]
    /\ accepted = <<>>
    /\ delivered = <<>>
    /\ last_feed = <<>>
    /\ n_feeds = 0
    /\ n_events = 0

CacheIdle ==
    /\ lines = <<>>
    /\ ticks = 0
    /\ hits = 0
    /\ misses = 0
    /\ inner_calls = 0
    /\ inner_faults = 0
    /\ last_read = <<>>
    /\ n_reads = 0
    /\ cache_capacity = 0
    /\ read_log = <<>>

CodecIdle ==
    /\ codec_checks = FALSE
    /\ codec_in = [kind |-> "none", args |-> <<>>, val |-> <<>>, panicked |-> FALSE]
    /\ codec_buf = <<>>
    /\ codec_out = [ok |-> FALSE, val |-> <<>>, err |-> "none"]

\* no call has been made on the file system
NoOp ==
    [op |-> "none", node |-> 0, name |-> <<>>, offset |-> 0, len |-> 0,
     result |-> [ok |-> FALSE, val |-> <<>>, err |-> "none"], out |-> <<>>,
     chain_start |-> 0, acc |-> <<>>, path |-> <<>>, calls |-> <<>>, lbas |-> <<>>]

FsIdle ==
    /\ disk = <<>>
    /\ faulty = -1
    /\ fs = [ok |-> FALSE, val |-> <<>>, err |-> "unmounted"]
    /\ fs_op = NoOp
    /\ built_from = [tool |-> FALSE, files |-> <<>>]

PathIdle ==
    /\ path_in = <<>>
    /\ path_op = "none"
    /\ path_out = [ok |-> FALSE, val |-> <<>>, err |-> "none"]
    /\ fs_calls = <<>>

\* no line has been parsed
NoLine == [line |-> <<>>, lead |-> 0, word |-> <<>>, gap |-> 0, arg |-> <<>>,
           trail |-> 0, typed |-> FALSE]

ShellIdle ==
    /\ line_in = NoLine
    /\ parsed = [kind |-> "none", arg |-> <<>>]

\* Option<usize>
None == [some |-> FALSE, val |-> 0]
Some(v) == [some |-> TRUE, val |-> v]

\* execute_command has not run
NoExec == [line |-> <<>>, kind |-> "none", lines |-> <<>>, evicted |-> FALSE]

RunIdle ==
    /\ line_buf = <<>>
    /\ line_len = 0
    /\ history = <<>>
    /\ history_index = None
    /\ exec_out = NoExec
    /\ shell_hung = FALSE

AtaIdle ==
    /\ ata_pc = "idle"
    /\ ata_req = [lba |-> 0, len |-> 0]
    /\ ata_ports = <<>>
    /\ ata_statuses = <<>>
    /\ ata_words = 0
    /\ ata_out = <<>>
    /\ ata_result = [ok |-> FALSE, val |-> <<>>, err |-> "none"]

\* the mainline is outside try_read_key and has not called it
NoRead == [was_enabled |-> FALSE, entry_if |-> FALSE, access_if |-> FALSE,
           accessed |-> FALSE, returns |-> 0, result |-> [kind |-> "None", ch |-> 0]]

IrqIdle ==
    /\ interrupt_flag = FALSE
    /\ cpu_hung = FALSE
    /\ idt = {}
    /\ TICKS = 0
    /\ port_log = <<>>
    /\ last_vector = [raised |-> -1, dispatched |-> -1]
    /\ n_irqs = 0
    /\ trk_pc = "idle"
    /\ trk = NoRead

\* boot_info() has not been called
NoView == [called |-> FALSE, some |-> FALSE, entries |-> <<>>, panicked |-> FALSE]

NoRaw == [magic |-> 0, version |-> 0, memory_map_entries |-> 0,
          memory_map_entry_size |-> 0, memory_map_ptr |-> 0, reserved |-> 0]

BootIdle ==
    /\ BOOT_INFO_PTR = 0
    /\ boot_raw = NoRaw
    /\ ub_checks = FALSE
    /\ boot_log = [registered |-> FALSE, raw |-> NoRaw, loaded |-> 0, known |-> FALSE]
    /\ boot_out = NoView

\* alloc_frame has not been called
NoAlloc == [frame |-> [some |-> FALSE, start |-> 0], entry_if |-> FALSE,
            returns |-> 0, handed_out |-> <<>>]

GallocIdle ==
    /\ FRAME_ALLOCATOR_READY = FALSE
    /\ ALLOCATED_FRAMES = 0
    /\ af_pc = "idle"
    /\ af = NoAlloc
    /\ TOTAL_FRAMES = 0
    /\ stats_out = None

\* feed_scancode is not running on the mainline
NoInject == [active |-> FALSE, scancode |-> 0,
             seen |-> [shift |-> FALSE, e0_prefix |-> FALSE, head |-> 0, tail |-> 0,
                       buffer |-> <<>>],
             overlapped |-> FALSE]

MainIdle ==
    /\ km_pc = "off"
    /\ km_arg = 0
    /\ km_trace = <<>>
    /\ smoke = [k |-> 0, ok |-> TRUE]
    /\ inj = NoInject
    /\ halted = FALSE
    /\ sh_key = [kind |-> "None", ch |-> 0]

KernelIdle == FrameIdle /\ HeapIdle /\ KbdIdle /\ CacheIdle
CrateIdle == CodecIdle /\ FsIdle /\ PathIdle /\ ShellIdle
ArchIdle == RunIdle /\ AtaIdle /\ IrqIdle /\ BootIdle /\ GallocIdle /\ MainIdle
RunArchAlone == CrateIdle /\ AtaIdle /\ IrqIdle /\ BootIdle /\ GallocIdle /\ MainIdle
RunAlone == KernelIdle /\ RunArchAlone
AtaArchAlone == CrateIdle /\ RunIdle /\ IrqIdle /\ BootIdle /\ GallocIdle /\ MainIdle
AtaAlone == KernelIdle /\ AtaArchAlone
IrqArchAlone == CrateIdle /\ RunIdle /\ AtaIdle /\ BootIdle /\ GallocIdle /\ MainIdle
IrqAlone == KernelIdle /\ IrqArchAlone
BootArchAlone == CrateIdle /\ RunIdle /\ AtaIdle /\ IrqIdle /\ GallocIdle /\ MainIdle
BootAlone == KernelIdle /\ BootArchAlone
GallocArchAlone == CrateIdle /\ RunIdle /\ AtaIdle /\ IrqIdle /\ BootIdle /\ MainIdle
GallocAlone == KernelIdle /\ GallocArchAlone
MainArchAlone == CrateIdle /\ RunIdle /\ AtaIdle /\ IrqIdle /\ BootIdle /\ GallocIdle
MainAlone == KernelIdle /\ MainArchAlone
LibIdle == CrateIdle /\ ArchIdle

\* ---- inputs ----
MaxRegions == 2
MaxAllocs == 5

RegionBases == {MIN_ALLOCATABLE_ADDR - FRAME_SIZE, MIN_ALLOCATABLE_ADDR,
                MIN_ALLOCATABLE_ADDR + 2048, MIN_ALLOCATABLE_ADDR + 2 * FRAME_SIZE,
                U64 - FRAME_SIZE, U64 - 2048}
RegionLengths == {0, FRAME_SIZE, FRAME_SIZE + 2048, 2 * FRAME_SIZE}

MemoryMapEntries ==
    [base : RegionBases, length : RegionLengths, entry_type : {1}]
    \cup {[base |-> MIN_ALLOCATABLE_ADDR, length |-> FRAME_SIZE, entry_type |-> 2]}

MemoryMaps == UNION {[1..n -> MemoryMapEntries] : n \in 0..MaxRegions}

MinAddrs == {MIN_ALLOCATABLE_ADDR, MIN_ALLOCATABLE_ADDR + 2048}

\* FrameAllocator::new(regions, min_addr): fields zeroed, then select_next_region()
InitFrame ==
    /\ regions \in MemoryMaps
    /\ min_addr \in MinAddrs
    /\ overflow_checks \in BOOLEAN
    /\ LET st == select_next_region(0)
       IN  /\ region_index = st.region_index
           /\ next_addr = st.next_addr
           /\ region_end = st.region_end
    /\ panicked = FALSE
    /\ frames = <<>>
    /\ frame_src = <<>>
    /\ last_frame = NoFrame
    /\ n_allocs = 0
    /\ HeapIdle
    /\ KbdIdle
    /\ CacheIdle
    /\ LibIdle

\* one call of FrameAllocator::alloc
Alloc ==
    /\ ~panicked
    /\ n_allocs < MaxAllocs
    /\ LET r == alloc_loop([region_index |-> region_index,
                            next_addr |-> next_addr,
                            region_end |-> region_end])
       IN  /\ region_index' = r.st.region_index
           /\ next_addr' = r.st.next_addr
           /\ region_end' = r.st.region_end
           /\ panicked' = r.panic
           /\ last_frame' = r.frame
           /\ frames' = IF r.frame.some THEN Append(frames, r.frame.start) ELSE frames
           /\ frame_src' = IF r.frame.some
                           THEN Append(frame_src, r.st.region_index)
                           ELSE frame_src
    /\ n_allocs' = n_allocs + 1
    /\ UNCHANGED <<regions, min_addr, overflow_checks>>
    /\ UNCHANGED <<heapVars, kbdVars, cacheVars, libVars>>

NextFrame == Alloc

SpecFrame == InitFrame /\ [][NextFrame]_vars

-----------------------------------------------------------------------------
(* Frame allocator: properties *)

Usable(r) == r.entry_type = 1 /\ r.length > 0

StrictlyIncreasing(seq) == \A i \in 1..(Len(seq) - 1) : seq[i] < seq[i + 1]

NoDuplicates(seq) == \A i, j \in 1..Len(seq) : i # j => seq[i] # seq[j]

\* every 4096-aligned address of the modelled address space
FrameStarts == {k * FRAME_SIZE : k \in 0..((U64 \div FRAME_SIZE) - 1)}

\* the whole frames of map entry r above min_addr (true sums, no wrapping)
WholeFramesOf(r) ==
    {f \in FrameStarts : /\ r.base <= f
                         /\ min_addr <= f
                         /\ f + FRAME_SIZE <= saturating_add(r.base, r.length)}

\* C1: every frame returned by alloc starts at or above min_addr, is
\* 4096-aligned, and lies wholly inside some map entry of type 1
\* (r.base <= f.start and f.start + 4096 <= r.base + r.length).
C1_FrameInsideUsableRegion ==
    \A i \in 1..Len(frames) :
        /\ frames[i] >= min_addr
        /\ frames[i] % FRAME_SIZE = 0
        /\ \E k \in 1..Len(regions) :
              /\ regions[k].entry_type = 1
              /\ regions[k].base <= frames[i]
              /\ frames[i] + FRAME_SIZE <= regions[k].base + regions[k].length

\* C2 as stated: for every map, also an unsorted one, the returned starts are
\* strictly increasing and next_addr never decreases.
C2_MonotoneForEveryMap ==
    [][next_addr' >= next_addr /\ StrictlyIncreasing(frames')]_vars

\* usable entries are listed in ascending, non-overlapping address order and
\* end at least two frames below the top of the address space, so that no
\* address computation of alloc overflows
AscendingMap ==
    /\ \A i, j \in 1..Len(regions) :
          (i < j /\ Usable(regions[i]) /\ Usable(regions[j]))
             => regions[i].base + regions[i].length <= regions[j].base
    /\ \A i \in 1..Len(regions) :
          Usable(regions[i])
             => regions[i].base + regions[i].length <= U64 - 2 * FRAME_SIZE

\* C2 amended: for a map whose usable entries are ascending, non-overlapping
\* and end at least two frames below the top of the address space, the
\* returned starts are strictly increasing, and next_addr never decreases
\* except for the reset to 0 made when alloc finds the map exhausted.
C2_MonotoneForAscendingMap ==
    [][AscendingMap =>
          /\ StrictlyIncreasing(frames')
          /\ (next_addr' >= next_addr \/ ~last_frame'.some)]_vars

\* C2 witness: an ascending map has served three frames from two entries
C2_Witness ==
    /\ AscendingMap
    /\ Len(frames) >= 3
    /\ frame_src[1] # frame_src[Len(frame_src)]

\* C3 as stated: for every map, also one whose usable entries overlap, no
\* frame start is returned twice, and alloc returns nothing only when every
\* whole frame of every usable entry has been returned.
C3_OnlyUnusedFrames ==
    /\ NoDuplicates(frames)
    /\ (n_allocs > 0 /\ ~last_frame.some /\ ~panicked)
          => \A k \in 1..Len(regions) :
                Usable(regions[k])
                   => \A f \in WholeFramesOf(regions[k]) :
                         \E i \in 1..Len(frames) : frames[i] = f

-----------------------------------------------------------------------------
(* Kernel heap: memory/heap.rs *)

HEAP_SIZE == 262144     \* 256 * 1024

\* BumpCursor::new
BumpCursor_new == [start |-> 0, end |-> 0, next |-> 0]

\* BumpCursor::init(start, size)
BumpCursor_init(start, size) ==
    [start |-> start, end |-> saturating_add(start, size), next |-> start]

\* heap.rs align_up(value, align): (value + align - 1) & !(align - 1)
heap_align_up(value, align) ==
    LET sum == wrapping_add(value, align - 1)
    IN  sum - (sum % align)

\* mutant: the request is not aligned at all
bump_aligned_none(c, layout) == c.next

\* `let aligned = align_up(self.next, layout.align())`
bump_aligned(c, layout) == heap_align_up(c.next, layout.align)

\* the else-branch condition of `if next > self.end`
bump_fits(next, end) == ~(next > end)

\* mutant: the cursor is advanced even when the request is refused
BumpCursor_alloc_advancing(c, layout) ==
    LET aligned == bump_aligned(c, layout)
        next    == saturating_add(aligned, layout.size)
    IN  IF bump_fits(next, c.end)
        THEN [cursor |-> [c EXCEPT !.next = next], ptr |-> aligned]
        ELSE [cursor |-> [c EXCEPT !.next = next], ptr |-> 0]

\* BumpCursor::alloc(layout): the cursor left behind and the pointer returned
\* (0 is the null pointer)
BumpCursor_alloc(c, layout) ==
    LET aligned == bump_aligned(c, layout)
        next    == saturating_add(aligned, layout.size)
    IN  IF bump_fits(next, c.end)
        THEN [cursor |-> [c EXCEPT !.next = next], ptr |-> aligned]
        ELSE [cursor |-> c, ptr |-> 0]

\* ---- inputs ----
MaxHeapAllocs == 3

\* HEAP_SPACE is a static [u8; HEAP_SIZE] of the kernel image (alignment 1),
\* loaded into identity-mapped low memory.
HeapSpaces == {1048576, 1048579}

\* core::alloc::Layout: align is a power of two and size, rounded up to
\* align, does not exceed isize::MAX
LayoutSizes == {0, 1, 12, HEAP_SIZE - 8, HEAP_SIZE, (U64 \div 2) - 1}
LayoutAligns == {1, 8, U64 \div 2}
Layouts ==
    {l \in [size : LayoutSizes, align : LayoutAligns] :
        l.size + ((l.align - (l.size % l.align)) % l.align) <= (U64 \div 2) - 1}

InitHeap ==
    /\ heap_space \in HeapSpaces
    /\ cursor = BumpCursor_new
    /\ HEAP_READY = FALSE
    /\ heap_log = <<>>
    /\ init_calls = 0
    /\ FrameIdle
    /\ KbdIdle
    /\ CacheIdle
    /\ LibIdle

\* mutant: the ready flag is not looked at
init_unguarded ==
    /\ init_calls < MaxHeapAllocs
    /\ init_calls' = init_calls + 1
    /\ cursor' = BumpCursor_init(heap_space, HEAP_SIZE)
    /\ HEAP_READY' = TRUE
    /\ UNCHANGED <<heap_space, heap_log>>
    /\ UNCHANGED <<frameVars, kbdVars, cacheVars, libVars>>

\* kernel_heap::init
init ==
    /\ init_calls < MaxHeapAllocs
    /\ init_calls' = init_calls + 1
    /\ IF HEAP_READY
       THEN UNCHANGED <<cursor, HEAP_READY>>
       ELSE /\ cursor' = BumpCursor_init(heap_space, HEAP_SIZE)
            /\ HEAP_READY' = TRUE
    /\ UNCHANGED <<heap_space, heap_log>>
    /\ UNCHANGED <<frameVars, kbdVars, cacheVars, libVars>>

\* one call of BumpCursor::alloc(layout), made under the allocator's lock
\* (KernelAllocator::alloc) or directly on the cursor
BumpAlloc(layout) ==
    /\ Len(heap_log) < MaxHeapAllocs
    /\ LET r == BumpCursor_alloc(cursor, layout)
       IN  /\ cursor' = r.cursor
           /\ heap_log' = Append(heap_log,
                                 [ptr |-> r.ptr, size |-> layout.size, align |-> layout.align,
                                  inits |-> init_calls])
    /\ UNCHANGED <<heap_space, HEAP_READY, init_calls>>
    /\ UNCHANGED <<frameVars, kbdVars, cacheVars, libVars>>

NextHeap ==
    \/ init
    \/ \E layout \in Layouts : BumpAlloc(layout)

SpecHeap == InitHeap /\ [][NextHeap]_vars

-----------------------------------------------------------------------------
(* Kernel heap: properties *)

\* the calls that returned a non-null pointer
Successful(i) == heap_log[i].ptr # 0

Disjoint(a, b) == a.ptr + a.size <= b.ptr \/ b.ptr + b.size <= a.ptr

\* C4 as stated: every non-null result is a multiple of the requested
\* alignment, lies within [start, start+size), and the byte ranges of any two
\* successful allocations are disjoint.
C4_AlignedInsideDisjoint ==
    /\ \A i \in 1..Len(heap_log) :
          Successful(i) =>
             /\ heap_log[i].ptr % heap_log[i].align = 0
             /\ cursor.start <= heap_log[i].ptr
             /\ heap_log[i].ptr < cursor.start + HEAP_SIZE
    /\ \A i, j \in 1..Len(heap_log) :
          (i < j /\ Successful(i) /\ Successful(j)) => Disjoint(heap_log[i], heap_log[j])

\* C4 amended: every non-null result is a multiple of the requested alignment,
\* its byte range lies within the heap (start <= result and
\* result + layout.size <= start + size, so a zero-size request may return
\* start + size itself), and the byte ranges of any two successful
\* allocations are disjoint.
C4_AlignedRangeInsideDisjoint ==
    /\ \A i \in 1..Len(heap_log) :
          Successful(i) =>
             /\ heap_log[i].ptr % heap_log[i].align = 0
             /\ cursor.start <= heap_log[i].ptr
             /\ heap_log[i].ptr + heap_log[i].size <= cursor.start + HEAP_SIZE
    /\ \A i, j \in 1..Len(heap_log) :
          (i < j /\ Successful(i) /\ Successful(j)) => Disjoint(heap_log[i], heap_log[j])

\* C4 witness: two successful allocations of which the second had to be
\* moved up to its alignment
C4_Witness ==
    /\ Len(heap_log) >= 2
    /\ Successful(1) /\ Successful(2)
    /\ heap_log[1].size > 0 /\ heap_log[2].size > 0
    /\ heap_log[2].align = 8
    /\ heap_log[2].ptr > heap_log[1].ptr + heap_log[1].size

\* C5: start <= next <= end in every reachable state, and an alloc whose
\* aligned start plus size exceeds end returns null and leaves next
\* unchanged.
C5_CursorBounds ==
    /\ [](cursor.start <= cursor.next /\ cursor.next <= cursor.end)
    /\ [][(Len(heap_log') > Len(heap_log)
           /\ heap_align_up(cursor.next, heap_log'[Len(heap_log')].align)
                 + heap_log'[Len(heap_log')].size > cursor.end)
          => (heap_log'[Len(heap_log')].ptr = 0 /\ cursor'.next = cursor.next)]_vars

\* C5 witness: a request was refused and a later, smaller one succeeded
C5_Witness ==
    \E i, j \in 1..Len(heap_log) :
        /\ i < j
        /\ HEAP_READY
        /\ heap_log[i].ptr = 0
        /\ heap_log[j].ptr # 0
        /\ 0 < heap_log[j].size
        /\ heap_log[j].size < heap_log[i].size

-----------------------------------------------------------------------------
(* Keyboard decoder and ring: arch/x86_64/keyboard.rs *)

\* const BUFFER_SIZE: usize = 256 in the source; the ring is modelled with
\* fewer slots so that it can be filled.
BUFFER_SIZE == 3

KEY_ENTER == 256        \* 0x100
KEY_BACKSPACE == 257    \* 0x101
KEY_UP == 258           \* 0x102
KEY_DOWN == 259         \* 0x103

\* enum KeyEvent, and None of Option<KeyEvent>
Char(ch) == [kind |-> "Char", ch |-> ch]
Enter == [kind |-> "Enter", ch |-> 0]
Backspace == [kind |-> "Backspace", ch |-> 0]
Up == [kind |-> "Up", ch |-> 0]
Down == [kind |-> "Down", ch |-> 0]
NoKey == [kind |-> "None", ch |-> 0]

KeyEvents == {Char(ch) : ch \in 0..255} \cup {Enter, Backspace, Up, Down}

\* KeyboardState::new
KeyboardState_new ==
    [shift |-> FALSE, e0_prefix |-> FALSE, head |-> 0, tail |-> 0,
     buffer |-> [i \in 0..(BUFFER_SIZE - 1) |-> 0]]

\* mutant: Up and Down share one code
encode_event_merged(event) ==
    CASE event.kind = "Char" -> event.ch
      [] event.kind = "Enter" -> KEY_ENTER
      [] event.kind = "Backspace" -> KEY_BACKSPACE
      [] event.kind = "Up" -> KEY_UP
      [] OTHER -> KEY_UP

\* fn encode_event(event: KeyEvent) -> u16
encode_event(event) ==
    CASE event.kind = "Char" -> event.ch
      [] event.kind = "Enter" -> KEY_ENTER
      [] event.kind = "Backspace" -> KEY_BACKSPACE
      [] event.kind = "Up" -> KEY_UP
      [] OTHER -> KEY_DOWN

\* fn decode_event(code: u16) -> Option<KeyEvent>
decode_event(code) ==
    CASE code \in 0..255 -> Char(code)
      [] code = KEY_ENTER -> Enter
      [] code = KEY_BACKSPACE -> Backspace
      [] code = KEY_UP -> Up
      [] code = KEY_DOWN -> Down
      [] OTHER -> NoKey

\* the match arms of decode_scancode: <<scancode, unshifted, shifted>>
\* (German QWERTZ layout, ASCII codes)
QwertzTable ==
    {
     <<1, 27, 27>>, <<2, 49, 33>>, <<3, 50, 34>>, <<4, 51, 35>>,
     <<5, 52, 36>>, <<6, 53, 37>>, <<7, 54, 38>>, <<8, 55, 47>>,
     <<9, 56, 40>>, <<10, 57, 41>>, <<11, 48, 61>>, <<12, 45, 63>>,
     <<13, 43, 96>>, <<14, 8, 8>>, <<15, 9, 9>>, <<16, 113, 81>>,
     <<17, 119, 87>>, <<18, 101, 69>>, <<19, 114, 82>>, <<20, 116, 84>>,
     <<21, 122, 90>>, <<22, 117, 85>>, <<23, 105, 73>>, <<24, 111, 79>>,
     <<25, 112, 80>>, <<26, 117, 85>>, <<27, 35, 43>>, <<28, 10, 10>>,
     <<30, 97, 65>>, <<31, 115, 83>>, <<32, 100, 68>>, <<33, 102, 70>>,
     <<34, 103, 71>>, <<35, 104, 72>>, <<36, 106, 74>>, <<37, 107, 75>>,
     <<38, 108, 76>>, <<39, 59, 58>>, <<40, 39, 34>>, <<41, 96, 126>>,
     <<43, 39, 42>>, <<44, 121, 89>>, <<45, 120, 88>>, <<46, 99, 67>>,
     <<47, 118, 86>>, <<48, 98, 66>>, <<49, 110, 78>>, <<50, 109, 77>>,
     <<51, 44, 59>>, <<52, 46, 58>>, <<53, 45, 95>>, <<57, 32, 32>>}

\* fn decode_scancode(scancode: u8, shift: bool) -> Option<u8>; -1 is None
decode_scancode(scancode, shift) ==
    IF \E row \in QwertzTable : row[1] = scancode
    THEN LET row == CHOOSE r \in QwertzTable : r[1] = scancode
         IN  IF shift THEN row[3] ELSE row[2]
    ELSE -1

\* mutant: a full ring overwrites the oldest unread slot
push_event_overwriting(st, event) ==
    [st |-> [st EXCEPT !.buffer[st.head] = encode_event(event),
                       !.head = (st.head + 1) % BUFFER_SIZE],
     stored |-> TRUE]

\* fn push_event(state, event): the state left behind, and whether the
\* event was stored (FALSE: the ring was full and the event is dropped)
push_event(st, event) ==
    LET next_head == (st.head + 1) % BUFFER_SIZE
    IN  IF next_head = st.tail
        THEN [st |-> st, stored |-> FALSE]
        ELSE [st |-> [st EXCEPT !.buffer[st.head] = encode_event(event),
                                !.head = next_head],
              stored |-> TRUE]

\* a call of feed_scancode that pushes nothing
NoPush(st) == [st |-> st, pushed |-> NoKey, stored |-> FALSE]

\* a call of feed_scancode that ends in push_event(state, event)
Push(st, event) ==
    LET r == push_event(st, event)
    IN  [st |-> r.st, pushed |-> event, stored |-> r.stored]

\* mutant: the byte after 0xE0 is decoded like an unprefixed byte
feed_prefixed_ignored(st, scancode) ==
    LET cleared == [st EXCEPT !.e0_prefix = FALSE]
        ch == decode_scancode(scancode, st.shift)
    IN  IF scancode >= 128 \/ ch = -1
        THEN NoPush(cleared)
        ELSE Push(cleared, Char(ch))

\* feed_scancode, the `if state.e0_prefix` branch (lines 99-111)
feed_prefixed(st, scancode) ==
    LET cleared == [st EXCEPT !.e0_prefix = FALSE]
    IN  IF scancode >= 128
        THEN NoPush(cleared)
        ELSE CASE scancode = 72 -> Push(cleared, Up)
               [] scancode = 80 -> Push(cleared, Down)
               [] OTHER -> NoPush(cleared)

\* mutant: key releases are decoded like key presses
feed_plain_no_release(st, scancode) ==
    CASE scancode \in {42, 54} -> NoPush([st EXCEPT !.shift = TRUE])
      [] scancode \in {170, 182} -> NoPush([st EXCEPT !.shift = FALSE])
      [] OTHER ->
            LET ch == decode_scancode(scancode % 128, st.shift)
            IN  CASE ch = -1 -> NoPush(st)
                  [] ch = 8 -> Push(st, Backspace)
                  [] ch = 10 -> Push(st, Enter)
                  [] OTHER -> Push(st, Char(ch))

\* feed_scancode, the unprefixed part (lines 113-135)
feed_plain(st, scancode) ==
    CASE scancode \in {42, 54} -> NoPush([st EXCEPT !.shift = TRUE])
      [] scancode \in {170, 182} -> NoPush([st EXCEPT !.shift = FALSE])
      [] scancode >= 128 -> NoPush(st)
      [] OTHER ->
            LET ch == decode_scancode(scancode, st.shift)
            IN  CASE ch = -1 -> NoPush(st)
                  [] ch = 8 -> Push(st, Backspace)
                  [] ch = 10 -> Push(st, Enter)
                  [] OTHER -> Push(st, Char(ch))

\* fn feed_scancode(scancode: u8)
feed_scancode(st, scancode) ==
    IF scancode = 224
    THEN NoPush([st EXCEPT !.e0_prefix = TRUE])
    ELSE IF st.e0_prefix
    THEN feed_prefixed(st, scancode)
    ELSE feed_plain(st, scancode)

\* ---- inputs ----
MaxFeeds == 4

\* Scancodes the keyboard may send at any time: Enter, 0xE0, 0x48, 0x50.
\* The other bytes are sent only while no event has been pushed yet, which
\* exercises every byte in every decoder state and keeps the ring contents
\* enumerable.
RingScancodes == {28, 224, 72, 80}
Scancodes == 0..255

InitKbd ==
    /\ kbd = KeyboardState_new
    /\ accepted = <<>>
    /\ delivered = <<>>
    /\ last_feed = <<>>
    /\ n_feeds = 0
    /\ n_events = 0
    /\ FrameIdle
    /\ HeapIdle
    /\ CacheIdle
    /\ LibIdle

\* handle_irq: `let scancode = io::inb(0x60); feed_scancode(scancode)`,
\* and inject_scancode(scancode); it runs to completion before the
\* consumer runs again.
handle_irq(scancode) ==
    /\ n_feeds < MaxFeeds
    /\ scancode \in RingScancodes \/ n_events = 0
    /\ LET r == feed_scancode(kbd, scancode)
       IN  /\ kbd' = r.st
           /\ accepted' = IF r.stored THEN Append(accepted, r.pushed) ELSE accepted
           /\ last_feed' = <<[scancode |-> scancode, pushed |-> r.pushed,
                              stored |-> r.stored]>>
           /\ n_events' = IF r.pushed # NoKey THEN n_events + 1 ELSE n_events
    /\ n_feeds' = n_feeds + 1
    /\ UNCHANGED delivered
    /\ UNCHANGED <<frameVars, heapVars, cacheVars, libVars>>

\* fn try_read_key() -> Option<KeyEvent>, between save_and_disable_interrupts
\* and restore_interrupts
try_read_key ==
    /\ IF kbd.head = kbd.tail
       THEN UNCHANGED <<kbd, delivered>>
       ELSE LET code == kbd.buffer[kbd.tail]
            IN  /\ kbd' = [kbd EXCEPT !.tail = (kbd.tail + 1) % BUFFER_SIZE]
                /\ delivered' = IF decode_event(code) # NoKey
                                THEN Append(delivered, decode_event(code))
                                ELSE delivered
    /\ UNCHANGED <<accepted, last_feed, n_feeds, n_events>>
    /\ UNCHANGED <<frameVars, heapVars, cacheVars, libVars>>

\* fn clear_buffer(): head = tail = 0.  The histories restart here.
clear_buffer ==
    /\ kbd' = [kbd EXCEPT !.head = 0, !.tail = 0]
    /\ accepted' = <<>>
    /\ delivered' = <<>>
    /\ UNCHANGED <<last_feed, n_feeds, n_events>>
    /\ UNCHANGED <<frameVars, heapVars, cacheVars, libVars>>

NextKbd ==
    \/ \E scancode \in Scancodes : handle_irq(scancode)
    \/ try_read_key
    \/ clear_buffer

SpecKbd == InitKbd /\ [][NextKbd]_vars

-----------------------------------------------------------------------------
(* Keyboard: properties *)

\* the unread slots of the ring, oldest first
UnreadSlots ==
    LET count == (kbd.head - kbd.tail + BUFFER_SIZE) % BUFFER_SIZE
    IN  [i \in 1..count |-> (kbd.tail + i - 1) % BUFFER_SIZE]

\* the events waiting in the ring, oldest first
RingContents ==
    [i \in 1..Len(UnreadSlots) |-> decode_event(kbd.buffer[UnreadSlots[i]])]

\* the step is one call of feed_scancode
FeedStep == n_feeds' = n_feeds + 1

\* C6: the events returned by try_read_key, followed by the events still
\* waiting in the ring, are exactly the events stored into the ring, in the
\* same order; and decode_event(encode_event(e)) = e for every KeyEvent.
C6_RingIsFifo ==
    /\ delivered \o RingContents = accepted
    /\ \A e \in KeyEvents : decode_event(encode_event(e)) = e

\* C6 witness: two different events were read in order while a third waits
C6_Witness ==
    /\ Len(delivered) = 2
    /\ delivered[1] # delivered[2]
    /\ Len(RingContents) = 1
    /\ kbd.head < kbd.tail

\* C7: when the ring is full a pushed event is dropped and head, tail and
\* the buffer are unchanged; the ring never holds more than BUFFER_SIZE - 1
\* unread events, and no push changes an unread slot.
C7_FullRingDrops ==
    /\ [](Len(accepted) - Len(delivered) <= BUFFER_SIZE - 1)
    /\ [][FeedStep =>
            /\ ((kbd.head + 1) % BUFFER_SIZE = kbd.tail /\ last_feed'[1].pushed # NoKey)
                  => /\ ~last_feed'[1].stored
                     /\ kbd'.head = kbd.head
                     /\ kbd'.tail = kbd.tail
                     /\ kbd'.buffer = kbd.buffer
            /\ \A i \in 1..Len(UnreadSlots) :
                  kbd'.buffer[UnreadSlots[i]] = kbd.buffer[UnreadSlots[i]]]_vars

\* C7 witness: an event was pushed at a full ring and dropped
C7_Witness ==
    /\ last_feed # <<>>
    /\ last_feed[1].pushed # NoKey
    /\ ~last_feed[1].stored
    /\ Len(accepted) - Len(delivered) = BUFFER_SIZE - 1

\* what the byte after 0xE0 produces
PrefixedEvent(scancode) ==
    IF scancode = 72 THEN Up ELSE IF scancode = 80 THEN Down ELSE NoKey

\* C8 as stated: 0xE0 sets e0_prefix; the next byte, whatever it is, clears
\* e0_prefix, pushes Up for 0x48, Down for 0x50 and nothing otherwise, and
\* leaves shift unchanged.
C8_PrefixAlwaysCleared ==
    [][FeedStep =>
         /\ (last_feed'[1].scancode = 224 /\ ~kbd.e0_prefix) => kbd'.e0_prefix
         /\ kbd.e0_prefix =>
               /\ ~kbd'.e0_prefix
               /\ last_feed'[1].pushed = PrefixedEvent(last_feed'[1].scancode)
               /\ kbd'.shift = kbd.shift]_vars

\* C8 amended: 0xE0 sets e0_prefix (also when it is already set, pushing
\* nothing); the next byte other than 0xE0 clears e0_prefix, pushes Up for
\* 0x48, Down for 0x50 and nothing otherwise, and leaves shift unchanged.
C8_PrefixClearedUnlessRepeated ==
    [][FeedStep =>
         /\ last_feed'[1].scancode = 224 =>
               /\ kbd'.e0_prefix
               /\ last_feed'[1].pushed = NoKey
               /\ kbd'.shift = kbd.shift
         /\ (kbd.e0_prefix /\ last_feed'[1].scancode # 224) =>
               /\ ~kbd'.e0_prefix
               /\ last_feed'[1].pushed = PrefixedEvent(last_feed'[1].scancode)
               /\ kbd'.shift = kbd.shift]_vars

\* C8 witness: 0xE0 0x48 0xE0 0x50 were fed and read back as Up, Down
C8_Witness ==
    /\ n_feeds = 4
    /\ accepted = <<Up, Down>>
    /\ delivered = <<Up, Down>>

\* what an unprefixed key press produces under the given shift state
PlainEvent(scancode, shift) ==
    CASE scancode = 28 -> Enter
      [] scancode = 14 -> Backspace
      [] decode_scancode(scancode, shift) = -1 -> NoKey
      [] OTHER -> Char(decode_scancode(scancode, shift))

\* the table entries the claim names: z/Z, y/Y, h, e, l, o
NamedKeys ==
    /\ PlainEvent(21, FALSE) = Char(122) /\ PlainEvent(21, TRUE) = Char(90)
    /\ PlainEvent(44, FALSE) = Char(121) /\ PlainEvent(44, TRUE) = Char(89)
    /\ PlainEvent(35, FALSE) = Char(104) /\ PlainEvent(18, FALSE) = Char(101)
    /\ PlainEvent(38, FALSE) = Char(108) /\ PlainEvent(24, FALSE) = Char(111)

\* the effect of an unprefixed byte, for the bytes in HighBitSilent the
\* high-bit rule "no event, no change of decoder state" is asserted
PlainEffect(HighBitSilent) ==
    LET scancode == last_feed'[1].scancode
        pushed   == last_feed'[1].pushed
    IN  CASE scancode \in {42, 54} ->
               kbd'.shift /\ pushed = NoKey /\ kbd'.e0_prefix = kbd.e0_prefix
          [] scancode \in {170, 182} ->
               ~kbd'.shift /\ pushed = NoKey /\ kbd'.e0_prefix = kbd.e0_prefix
          [] scancode \in HighBitSilent ->
               /\ pushed = NoKey
               /\ kbd'.shift = kbd.shift
               /\ kbd'.e0_prefix = kbd.e0_prefix
          [] scancode >= 128 -> TRUE
          [] OTHER ->
               /\ pushed = PlainEvent(scancode, kbd.shift)
               /\ kbd'.shift = kbd.shift
               /\ kbd'.e0_prefix = kbd.e0_prefix

\* C9 as stated: with e0_prefix clear, 0x2A/0x36 set shift and 0xAA/0xB6
\* clear it without an event; every other byte with the high bit set pushes
\* nothing and changes no decoder state; every other byte pushes Enter for
\* 0x1C, Backspace for 0x0E, and otherwise the Char of its table entry under
\* the current shift state, or nothing if it has no entry.
C9_PlainBytes ==
    /\ NamedKeys
    /\ [][(FeedStep /\ ~kbd.e0_prefix) => PlainEffect(128..255)]_vars

\* C9 amended: as stated, except that the byte 0xE0, which also has the high
\* bit set, changes the decoder state: it sets e0_prefix (and pushes nothing).
C9_PlainBytesExceptE0 ==
    /\ NamedKeys
    /\ [][(FeedStep /\ ~kbd.e0_prefix) =>
            /\ PlainEffect((128..255) \ {224})
            /\ last_feed'[1].scancode = 224 =>
                  (kbd'.e0_prefix /\ last_feed'[1].pushed = NoKey)]_vars

\* C9 witness: shift then 0x15 was fed and read back as 'Z'
C9_Witness ==
    /\ kbd.shift
    /\ last_feed # <<>>
    /\ last_feed[1].scancode = 21
    /\ delivered = <<Char(90)>>

-----------------------------------------------------------------------------
(* Sector cache: storage/cache.rs, storage/block.rs *)

SECTOR_SIZE == 512

\* The 512 bytes of a sector are modelled as one token: DeviceData(lba) is
\* what the inner device holds for lba, ZeroData the zeroed buffer of an
\* empty line, TornData a buffer the device wrote only part of before it
\* failed.
DeviceData(lba) == lba + 1
ZeroData == 0
TornData == -1

\* the BlockError values an inner device returns for a 512-byte buffer
InnerErrors == {"DeviceFault", "Timeout", "Unsupported"}

\* CacheLine::empty
CacheLine_empty == [valid |-> FALSE, lba |-> 0, last_use |-> 0, data |-> ZeroData]

\* CachedBlockDevice::new(inner, capacity): capacity.max(1) empty lines
CachedBlockDevice_new(capacity) == [i \in 1..Max(capacity, 1) |-> CacheLine_empty]

\* `self.lines.iter_mut().find(|l| l.valid && l.lba == lba)`: index of the
\* first matching line, 0 if there is none
find_line(ls, lba) ==
    LET matching == {i \in 1..Len(ls) : ls[i].valid /\ ls[i].lba = lba}
    IN  IF matching = {} THEN 0
        ELSE CHOOSE i \in matching : \A j \in matching : i <= j

\* the key of min_by_key: `if line.valid { line.last_use } else { 0 }`
victim_key(line) == IF line.valid THEN line.last_use ELSE 0

\* mutant: the most recently used line is the victim
replace_idx_mru(ls) ==
    CHOOSE i \in 1..Len(ls) :
        /\ \A j \in 1..Len(ls) : victim_key(ls[i]) >= victim_key(ls[j])
        /\ \A j \in 1..(i - 1) : victim_key(ls[j]) < victim_key(ls[i])

\* `.enumerate().min_by_key(..).map(|(idx, _)| idx).unwrap_or(0)`: the first
\* index whose key is minimal
replace_idx(ls) ==
    CHOOSE i \in 1..Len(ls) :
        /\ \A j \in 1..Len(ls) : victim_key(ls[i]) <= victim_key(ls[j])
        /\ \A j \in 1..(i - 1) : victim_key(ls[j]) > victim_key(ls[i])

\* mutant: the refilled line is not marked valid
fill_line_invalid(line, lba, tick) ==
    [line EXCEPT !.lba = lba, !.last_use = tick]

\* lines 92-94: valid = true, lba = lba, last_use = self.ticks
fill_line(line, lba, tick) ==
    [line EXCEPT !.valid = TRUE, !.lba = lba, !.last_use = tick]

\* What one read_sector call on the inner device does to the buffer it is
\* given: it fills it and succeeds, or fails, leaving the buffer as it was
\* or partly written.
InnerOutcomes ==
    {[ok |-> TRUE, err |-> "", torn |-> FALSE]}
    \cup [ok : {FALSE}, err : InnerErrors, torn : BOOLEAN]

inner_read_sector(lba, buf, outcome) ==
    IF outcome.ok THEN DeviceData(lba)
    ELSE IF outcome.torn THEN TornData ELSE buf

\* ---- inputs ----
MaxCapacity == 2
MaxLba == 2
MaxReads == 4

InitCache ==
    /\ cache_capacity \in 0..MaxCapacity
    /\ lines = CachedBlockDevice_new(cache_capacity)
    /\ read_log = <<>>
    /\ ticks = 1
    /\ hits = 0
    /\ misses = 0
    /\ inner_calls = 0
    /\ inner_faults = 0
    /\ last_read = <<>>
    /\ n_reads = 0
    /\ FrameIdle
    /\ HeapIdle
    /\ KbdIdle
    /\ LibIdle

\* mutant: the length of the caller's buffer is never checked
invalid_buffer_size_never(len) == FALSE

\* line 68: `out.len() != 512`
invalid_buffer_size(len) == len # SECTOR_SIZE

\* the call record kept in last_read
ReadRecord(lba, len, result, out) ==
    <<[lba |-> lba, len |-> len, result |-> result, out |-> out]>>

\* the entry read_log keeps of one 512-byte call: the line it hit (0 on a
\* miss), the victim it chose (0 on a hit), whether that victim was valid
\* when it was chosen, and whether the inner read succeeded
LogRecord(lba, hit, idx, was_valid, ok) ==
    [lba |-> lba, hit |-> hit, victim |-> idx, evicted |-> was_valid, ok |-> ok]

\* CachedBlockDevice::read_sector(lba, out) with out.len() = len; outcome is
\* what the inner device does if it is called
read_sector(lba, len, outcome) ==
    /\ n_reads < MaxReads
    /\ n_reads' = n_reads + 1
    /\ UNCHANGED cache_capacity
    /\ IF invalid_buffer_size(len)
       THEN /\ last_read' = ReadRecord(lba, len, "InvalidBufferSize", ZeroData)
            /\ UNCHANGED <<lines, ticks, hits, misses, inner_calls, inner_faults,
                           read_log>>
       ELSE LET tick == wrapping_add(ticks, 1)
                hit  == find_line(lines, lba)
                idx  == replace_idx(lines)
                data == inner_read_sector(lba, lines[idx].data, outcome)
            IN  /\ ticks' = tick
                /\ read_log' = Append(read_log,
                                      IF hit # 0
                                      THEN LogRecord(lba, hit, 0, FALSE, TRUE)
                                      ELSE LogRecord(lba, 0, idx, lines[idx].valid,
                                                     outcome.ok))
                /\ IF hit # 0
                   THEN /\ hits' = hits + 1
                        /\ lines' = [lines EXCEPT ![hit].last_use = tick]
                        /\ last_read' = ReadRecord(lba, len, "Ok", lines[hit].data)
                        /\ UNCHANGED <<misses, inner_calls, inner_faults>>
                   ELSE /\ misses' = misses + 1
                        /\ inner_calls' = inner_calls + 1
                        /\ UNCHANGED hits
                        /\ IF outcome.ok
                           THEN /\ lines' = [lines EXCEPT
                                               ![idx] = fill_line([@ EXCEPT !.data = data],
                                                                  lba, tick)]
                                /\ last_read' = ReadRecord(lba, len, "Ok", data)
                                /\ UNCHANGED inner_faults
                           ELSE /\ lines' = [lines EXCEPT ![idx].data = data]
                                /\ last_read' = ReadRecord(lba, len, outcome.err, ZeroData)
                                /\ inner_faults' = inner_faults + 1
    /\ UNCHANGED <<frameVars, heapVars, kbdVars, libVars>>

NextCache ==
    \E lba \in 0..MaxLba, len \in {SECTOR_SIZE, 128}, outcome \in InnerOutcomes :
        read_sector(lba, len, outcome)

SpecCache == InitCache /\ [][NextCache]_vars

-----------------------------------------------------------------------------
(* Sector cache: properties *)

\* the step is one call of the cache's read_sector
ReadStep == n_reads' = n_reads + 1

\* C10: once a read of a sector has succeeded, an immediately repeated read
\* of the same sector (into a 512-byte buffer) succeeds, increments hits by
\* exactly one, leaves misses unchanged and does not call the inner device.
C10_RepeatedReadHits ==
    [][(/\ ReadStep
        /\ last_read # <<>>
        /\ last_read[1].result = "Ok"
        /\ last_read'[1].lba = last_read[1].lba
        /\ last_read'[1].len = SECTOR_SIZE)
       => /\ last_read'[1].result = "Ok"
          /\ hits' = hits + 1
          /\ misses' = misses
          /\ inner_calls' = inner_calls]_vars

\* C10 witness: sector 0 was read twice: one miss, one hit, one inner read
C10_Witness ==
    /\ n_reads = 2
    /\ last_read[1].lba = 0
    /\ last_read[1].result = "Ok"
    /\ hits = 1
    /\ misses = 1
    /\ inner_calls = 1

\* every call so far read a different sector into a 512-byte buffer
DistinctReads ==
    /\ n_reads = Len(read_log)
    /\ \A i, j \in 1..Len(read_log) : i # j => read_log[i].lba # read_log[j].lba

\* C11: starting from an empty cache of capacity c, reading k pairwise
\* distinct sectors once each makes min(k, c) + max(k - c, 0) reads on the
\* inner device, with misses = k and hits = 0, and the first min(k, c)
\* misses choose an invalid line as their victim.
C11_DistinctReadsAllMiss ==
    DistinctReads =>
        LET k == Len(read_log)
            c == cache_capacity
        IN  /\ inner_calls = Min(k, c) + Max(k - c, 0)
            /\ misses = k
            /\ hits = 0
            /\ \A i \in 1..Min(k, c) :
                   /\ read_log[i].hit = 0
                   /\ ~read_log[i].evicted

\* C11 witness: capacity 2, three distinct sectors read successfully, the
\* third one evicting a valid line
C11_Witness ==
    /\ DistinctReads
    /\ cache_capacity = 2
    /\ Len(read_log) = 3
    /\ \A i \in 1..3 : read_log[i].ok
    /\ read_log[3].evicted
    /\ inner_calls = 3
    /\ misses = 3

\* the step is a miss whose read on the inner device failed
FailedMiss ==
    /\ ReadStep
    /\ Len(read_log') = Len(read_log) + 1
    /\ read_log'[Len(read_log')].hit = 0
    /\ ~read_log'[Len(read_log')].ok

\* C12: when the inner read of a miss fails, the caller gets the inner
\* device's error and the victim line is invalid afterwards, whether or not
\* it was valid before the call.
C12_FailedMissInvalidatesVictim ==
    [][FailedMiss =>
          /\ last_read'[1].result \in InnerErrors
          /\ ~lines'[read_log'[Len(read_log')].victim].valid]_vars

-----------------------------------------------------------------------------
(* On-disk format: crates/simplefs-core/src/lib.rs *)

\* Width of the modelled u32 (32 in the source); a usize that is cast to
\* u32 is truncated to this width.
U32Bits == 12

U32 == 2^U32Bits
U32_MAX == U32 - 1

BLOCK_SIZE == 512
VERSION == 1
DIR_ENTRY_NAME_LEN == 32
DIR_ENTRY_SIZE == 64

\* b"ERESFS1\0"
MAGIC == <<69, 82, 69, 83, 70, 83, 49, 0>>

\* `[0_u8; n]`
Zeros(n) == [i \in 1..n |-> 0]

\* `out[offset..offset + len].copy_from_slice(bytes)`
copy_from_slice(out, offset, bytes) ==
    [i \in 1..Len(out) |->
        IF i > offset /\ i <= offset + Len(bytes) THEN bytes[i - offset] ELSE out[i]]

\* `&buf[from..to]`
slice(buf, from, to) == SubSeq(buf, from + 1, to)

\* u32::to_le_bytes / u32::from_le_bytes
to_le_bytes(value) ==
    <<value % 256, (value \div 256) % 256, (value \div 65536) % 256,
      (value \div 16777216) % 256>>

from_le_bytes(b) == b[1] + 256 * b[2] + 65536 * b[3] + 16777216 * b[4]

write_u32(out, offset, value) == copy_from_slice(out, offset, to_le_bytes(value))

read_u32(input, offset) == from_le_bytes(slice(input, offset, offset + 4))

\* Superblock::new; `1 + dir_block_count` is a u32 addition, computed here
\* as a build without overflow checks computes it
Superblock_new(total_blocks, dir_entry_count, dir_block_count) ==
    [magic            |-> MAGIC,
     version          |-> VERSION,
     block_size       |-> BLOCK_SIZE,
     total_blocks     |-> total_blocks,
     dir_entry_count  |-> dir_entry_count,
     dir_start_block  |-> 1,
     dir_block_count  |-> dir_block_count,
     data_start_block |-> (1 + dir_block_count) % U32]

\* the same addition in a build with overflow checks panics
Superblock_new_overflows(dir_block_count) == 1 + dir_block_count > U32_MAX

\* Superblock::encode
Superblock_encode(sb) ==
    LET o0 == copy_from_slice(Zeros(BLOCK_SIZE), 0, sb.magic)
        o1 == write_u32(o0, 8, sb.version)
        o2 == write_u32(o1, 12, sb.block_size)
        o3 == write_u32(o2, 16, sb.total_blocks)
        o4 == write_u32(o3, 20, sb.dir_entry_count)
        o5 == write_u32(o4, 24, sb.dir_start_block)
        o6 == write_u32(o5, 28, sb.dir_block_count)
    IN  write_u32(o6, 32, sb.data_start_block)

\* Superblock::validate: "Ok" or the FsError
Superblock_validate(sb) ==
    IF sb.magic # MAGIC THEN "InvalidMagic"
    ELSE IF sb.version # VERSION THEN "InvalidVersion"
    ELSE IF sb.block_size # BLOCK_SIZE THEN "InvalidBlockSize"
    ELSE "Ok"

\* Result<_, _> values
Ok(v) == [ok |-> TRUE, val |-> v, err |-> "Ok"]
Err(e) == [ok |-> FALSE, val |-> <<>>, err |-> e]

\* a Result is Ok(v) / is Err(e)
IsOk(r, v) == r.ok /\ r.val = v
IsErr(r, e) == ~r.ok /\ r.err = e

\* Superblock::decode
Superblock_decode(input) ==
    LET sb == [magic            |-> slice(input, 0, 8),
               version          |-> read_u32(input, 8),
               block_size       |-> read_u32(input, 12),
               total_blocks     |-> read_u32(input, 16),
               dir_entry_count  |-> read_u32(input, 20),
               dir_start_block  |-> read_u32(input, 24),
               dir_block_count  |-> read_u32(input, 28),
               data_start_block |-> read_u32(input, 32)]
    IN  IF Superblock_validate(sb) = "Ok" THEN Ok(sb) ELSE Err(Superblock_validate(sb))

\* DirEntry::encode
DirEntry_encode(e) ==
    LET o0 == copy_from_slice(Zeros(DIR_ENTRY_SIZE), 0, e.name)
        o1 == [o0 EXCEPT ![33] = e.name_len]
        o2 == write_u32(o1, 36, e.file_start_block)
        o3 == write_u32(o2, 40, e.file_block_count)
        o4 == write_u32(o3, 44, e.file_size)
    IN  write_u32(o4, 48, e.flags)

\* DirEntry::decode
DirEntry_decode(input) ==
    [name             |-> slice(input, 0, DIR_ENTRY_NAME_LEN),
     name_len         |-> input[33],
     file_start_block |-> read_u32(input, 36),
     file_block_count |-> read_u32(input, 40),
     file_size        |-> read_u32(input, 44),
     flags            |-> read_u32(input, 48)]

\* DirEntry::is_unused
is_unused(e) == e.name_len = 0

\* ---- inputs ----
\* `out_name[..name.len()].copy_from_slice(name.as_bytes())` over a zeroed
\* array (DirEntry::new)
pad_name(bytes) == bytes \o Zeros(DIR_ENTRY_NAME_LEN - Len(bytes))

\* "hello.txt", "notes.txt", "a"
Name_hello == <<104, 101, 108, 108, 111, 46, 116, 120, 116>>
Name_notes == <<110, 111, 116, 101, 115, 46, 116, 120, 116>>
Name_a == <<97>>

\* 32-byte name arrays: padded names, one with bytes after the name, one
\* that is no UTF-8 text, one that fills the array
NameArrays ==
    {pad_name(Name_hello),
     pad_name(Name_a),
     [i \in 1..DIR_ENTRY_NAME_LEN |-> IF i = 1 THEN 97 ELSE 255],
     [i \in 1..DIR_ENTRY_NAME_LEN |-> 96 + ((i - 1) % 26) + 1]}

DirEntryValues ==
    [name             : NameArrays,
     name_len         : {0, 1, 9, 32, 33, 255},
     file_start_block : {0, 2, U32_MAX},
     file_block_count : {0, 2},
     file_size        : {0, 700, U32_MAX},
     flags            : {0, 1}]

SuperblockArgs == {0, 1, 3, 100, U32_MAX - 1, U32_MAX}

\* blocks that are no superblock of this format
ForeignBlocks ==
    LET good == Superblock_encode(Superblock_new(100, 3, 1))
    IN  {Zeros(BLOCK_SIZE),
         [good EXCEPT ![8] = 1],
         write_u32(good, 8, 2),
         write_u32(good, 12, 1024)}

InitCodec ==
    /\ codec_checks \in BOOLEAN
    /\ codec_in = [kind |-> "none", args |-> <<>>, val |-> <<>>, panicked |-> FALSE]
    /\ codec_buf = <<>>
    /\ codec_out = [ok |-> FALSE, val |-> <<>>, err |-> "none"]
    /\ KernelIdle
    /\ ArchIdle
    /\ FsIdle
    /\ PathIdle
    /\ ShellIdle

\* tests::superblock_roundtrip for any arguments: Superblock::new, encode
\* into a block, decode the block
superblock_roundtrip(total_blocks, dir_entry_count, dir_block_count) ==
    /\ codec_in.kind = "none"
    /\ IF codec_checks /\ Superblock_new_overflows(dir_block_count)
       THEN /\ codec_in' = [kind |-> "Superblock",
                            args |-> <<total_blocks, dir_entry_count, dir_block_count>>,
                            val |-> <<>>, panicked |-> TRUE]
            /\ UNCHANGED <<codec_buf, codec_out>>
       ELSE LET sb == Superblock_new(total_blocks, dir_entry_count, dir_block_count)
            IN  /\ codec_in' = [kind |-> "Superblock",
                                args |-> <<total_blocks, dir_entry_count, dir_block_count>>,
                                val |-> sb, panicked |-> FALSE]
                /\ codec_buf' = Superblock_encode(sb)
                /\ codec_out' = Superblock_decode(Superblock_encode(sb))
    /\ UNCHANGED codec_checks
    /\ UNCHANGED exceptCodec

\* Superblock::decode of a block that was not produced by encode
superblock_decode(block) ==
    /\ codec_in.kind = "none"
    /\ codec_in' = [kind |-> "block", args |-> <<>>, val |-> <<>>, panicked |-> FALSE]
    /\ codec_buf' = block
    /\ codec_out' = Superblock_decode(block)
    /\ UNCHANGED codec_checks
    /\ UNCHANGED exceptCodec

\* tests::dir_entry_roundtrip for any DirEntry value: encode into a record,
\* decode the record
dir_entry_roundtrip(e) ==
    /\ codec_in.kind = "none"
    /\ codec_in' = [kind |-> "DirEntry", args |-> <<>>, val |-> e, panicked |-> FALSE]
    /\ codec_buf' = DirEntry_encode(e)
    /\ codec_out' = Ok(DirEntry_decode(DirEntry_encode(e)))
    /\ UNCHANGED codec_checks
    /\ UNCHANGED exceptCodec

NextCodec ==
    \/ \E t, c, d \in SuperblockArgs : superblock_roundtrip(t, c, d)
    \/ \E block \in ForeignBlocks : superblock_decode(block)
    \/ \E e \in DirEntryValues : dir_entry_roundtrip(e)

SpecCodec == InitCodec /\ [][NextCodec]_vars

-----------------------------------------------------------------------------
(* On-disk format: properties *)

\* a Superblock was built, encoded and decoded
SuperblockBuilt == codec_in.kind = "Superblock" /\ ~codec_in.panicked

\* the round-trip half of C13: decode(encode(x)) returns x, for every
\* Superblock that Superblock::new builds and for every DirEntry value
RoundTripIsIdentity ==
    /\ SuperblockBuilt => IsOk(codec_out, codec_in.val)
    /\ codec_in.kind = "DirEntry" => IsOk(codec_out, codec_in.val)

\* C13: for every Superblock built by Superblock::new(total_blocks,
\* dir_entry_count, dir_block_count), decode(encode(sb)) = Ok(sb) with
\* dir_start_block = 1 and data_start_block = 1 + dir_block_count; for every
\* DirEntry value, decode(encode(e)) = e.
C13_CodecRoundTrip ==
    /\ RoundTripIsIdentity
    /\ SuperblockBuilt =>
          /\ codec_out.ok
          /\ codec_out.val.dir_start_block = 1
          /\ codec_out.val.data_start_block = 1 + codec_in.args[3]

-----------------------------------------------------------------------------
(* SimpleFs: fs/simplefs.rs, with the image builder of
   crates/simplefs-tool/src/lib.rs *)

\* usize::div_ceil
div_ceil(a, b) == (a + b - 1) \div b

\* dir_blocks_for_entries / blocks_for_size; `as u32` truncates
dir_blocks_for_entries(entry_count) ==
    div_ceil(entry_count * DIR_ENTRY_SIZE, BLOCK_SIZE) % U32

blocks_for_size(size) == div_ceil(size, BLOCK_SIZE) % U32

\* core::str::from_utf8(..).is_ok(): the bytes from position i on are
\* well-formed UTF-8
RECURSIVE utf8_from(_, _)
utf8_from(b, i) ==
    LET n == Len(b)
        cont(k) == k <= n /\ b[k] >= 128 /\ b[k] <= 191
        in_range(k, lo, hi) == k <= n /\ b[k] >= lo /\ b[k] <= hi
    IN  IF i > n THEN TRUE
        ELSE IF b[i] < 128 THEN utf8_from(b, i + 1)
        ELSE IF b[i] >= 194 /\ b[i] <= 223
             THEN cont(i + 1) /\ utf8_from(b, i + 2)
        ELSE IF b[i] = 224
             THEN in_range(i + 1, 160, 191) /\ cont(i + 2) /\ utf8_from(b, i + 3)
        ELSE IF b[i] = 237
             THEN in_range(i + 1, 128, 159) /\ cont(i + 2) /\ utf8_from(b, i + 3)
        ELSE IF b[i] >= 225 /\ b[i] <= 239
             THEN cont(i + 1) /\ cont(i + 2) /\ utf8_from(b, i + 3)
        ELSE IF b[i] = 240
             THEN in_range(i + 1, 144, 191) /\ cont(i + 2) /\ cont(i + 3)
                  /\ utf8_from(b, i + 4)
        ELSE IF b[i] >= 241 /\ b[i] <= 243
             THEN cont(i + 1) /\ cont(i + 2) /\ cont(i + 3) /\ utf8_from(b, i + 4)
        ELSE IF b[i] = 244
             THEN in_range(i + 1, 128, 143) /\ cont(i + 2) /\ cont(i + 3)
                  /\ utf8_from(b, i + 4)
        ELSE FALSE

from_utf8_ok(b) == utf8_from(b, 1)

\* DirEntry::name
DirEntry_name(e) ==
    IF e.name_len > DIR_ENTRY_NAME_LEN THEN Err("InvalidData")
    ELSE IF from_utf8_ok(slice(e.name, 0, e.name_len))
         THEN Ok(slice(e.name, 0, e.name_len))
         ELSE Err("InvalidData")

\* DirEntry::new
DirEntry_new(name, file_start_block, file_block_count, file_size) ==
    IF Len(name) = 0 \/ Len(name) > DIR_ENTRY_NAME_LEN THEN Err("NameTooLong")
    ELSE Ok([name             |-> pad_name(name),
             name_len         |-> Len(name),
             file_start_block |-> file_start_block,
             file_block_count |-> file_block_count,
             file_size        |-> file_size,
             flags            |-> 0])

\* map_block_error / map_fs_error
map_block_error(err) == IF err = "Unsupported" THEN "Unsupported" ELSE "Io"
map_fs_error(err) == IF err = "NameTooLong" THEN "InvalidPath" ELSE "Io"

\* BlockDevice::read_sector of the device under the file system: a disk of
\* sectors (tests::MemDisk) on which one lba may report a fault
dev_read_sector(d, f, lba, buf_len) ==
    IF buf_len # BLOCK_SIZE THEN Err("InvalidBufferSize")
    ELSE IF lba = f THEN Err("DeviceFault")
    ELSE IF lba >= Len(d) THEN Err("Unsupported")
    ELSE Ok(d[lba + 1])

\* mount, lines 24-32: read dir_block_count sectors from dir_start_block on
\* into dir_data; the first failing read ends the mount
read_dir_blocks(d, f, sb) ==
    LET failing == {i \in 0..(sb.dir_block_count - 1) :
                       ~dev_read_sector(d, f, sb.dir_start_block + i, BLOCK_SIZE).ok}
        first == CHOOSE i \in failing : \A j \in failing : i <= j
    IN  IF failing # {}
        THEN Err(map_block_error(
                 dev_read_sector(d, f, sb.dir_start_block + first, BLOCK_SIZE).err))
        ELSE Ok([k \in 1..(sb.dir_block_count * BLOCK_SIZE) |->
                    d[sb.dir_start_block + ((k - 1) \div BLOCK_SIZE) + 1]
                     [((k - 1) % BLOCK_SIZE) + 1]])

\* mount, lines 34-47: decode dir_entry_count slots and keep the used ones;
\* the loop returns Io at the first slot that ends beyond dir_data, which
\* happens exactly when the last slot does
decode_entries(sb, dir_data) ==
    IF sb.dir_entry_count * DIR_ENTRY_SIZE > Len(dir_data) THEN Err("Io")
    ELSE LET slots == [i \in 1..sb.dir_entry_count |->
                          DirEntry_decode(slice(dir_data, (i - 1) * DIR_ENTRY_SIZE,
                                                i * DIR_ENTRY_SIZE))]
         IN  Ok(SelectSeq(slots, LAMBDA e : ~is_unused(e)))

\* SimpleFs::mount
SimpleFs_mount(d, f) ==
    LET r0 == dev_read_sector(d, f, 0, BLOCK_SIZE)
    IN  IF ~r0.ok THEN Err(map_block_error(r0.err))
        ELSE LET sbr == Superblock_decode(r0.val)
             IN  IF ~sbr.ok THEN Err(map_fs_error(sbr.err))
                 ELSE LET dirr == read_dir_blocks(d, f, sbr.val)
                      IN  IF ~dirr.ok THEN dirr
                          ELSE LET er == decode_entries(sbr.val, dirr.val)
                               IN  IF ~er.ok THEN er
                                   ELSE Ok([superblock |-> sbr.val,
                                            entries    |-> er.val])

\* build_image, lines 99-112: one DirEntry per file, regions laid out one
\* after another from current_data_block on; u32 sums wrap at the width
RECURSIVE build_entries(_, _, _, _)
build_entries(files, i, current_data_block, acc) ==
    IF i > Len(files) THEN Ok(acc)
    ELSE LET blocks == blocks_for_size(Len(files[i].data))
             e == DirEntry_new(files[i].name, current_data_block, blocks,
                               Len(files[i].data) % U32)
         IN  IF ~e.ok THEN Err("invalid entry name")
             ELSE build_entries(files, i + 1, (current_data_block + blocks) % U32,
                                Append(acc, e.val))

RECURSIVE sum_blocks(_, _)
sum_blocks(entries, i) ==
    IF i > Len(entries) THEN 0
    ELSE (entries[i].file_block_count + sum_blocks(entries, i + 1)) % U32

\* build_image, lines 122-127 and 129-133
RECURSIVE place_entries(_, _, _)
place_entries(image, entries, i) ==
    IF i > Len(entries) THEN image
    ELSE place_entries(copy_from_slice(image, BLOCK_SIZE + (i - 1) * DIR_ENTRY_SIZE,
                                       DirEntry_encode(entries[i])),
                       entries, i + 1)

RECURSIVE place_files(_, _, _, _)
place_files(image, files, entries, i) ==
    IF i > Len(files) THEN image
    ELSE place_files(copy_from_slice(image, entries[i].file_start_block * BLOCK_SIZE,
                                     files[i].data),
                     files, entries, i + 1)

\* a slice of the image that build_image indexes lies outside the image
build_image_out_of_range(files, entries, image_len) ==
    \/ BLOCK_SIZE > image_len
    \/ \E i \in 1..Len(entries) : BLOCK_SIZE + i * DIR_ENTRY_SIZE > image_len
    \/ \E i \in 1..Len(files) :
          entries[i].file_start_block * BLOCK_SIZE + Len(files[i].data) > image_len

\* build_image(files): the image bytes, or the error string; indexing
\* outside the image panics
build_image(files) ==
    LET dir_blocks == dir_blocks_for_entries(Len(files))
        er == build_entries(files, 1, (1 + dir_blocks) % U32, <<>>)
        total_blocks == (1 + dir_blocks + sum_blocks(er.val, 1)) % U32
        sb == Superblock_new(total_blocks, Len(er.val) % U32, dir_blocks)
        image0 == copy_from_slice(Zeros(total_blocks * BLOCK_SIZE), 0,
                                  Superblock_encode(sb))
    IN  IF ~er.ok THEN er
        ELSE IF build_image_out_of_range(files, er.val, total_blocks * BLOCK_SIZE)
             THEN Err("panic")
             ELSE Ok(place_files(place_entries(image0, er.val, 1), files, er.val, 1))

\* tests::sectors_from_image
sectors_from_image(image) ==
    [k \in 1..(Len(image) \div BLOCK_SIZE) |->
        slice(image, (k - 1) * BLOCK_SIZE, k * BLOCK_SIZE)]

\* ---- inputs: host files ----
\* b"hello from tool", b"notes"
Data_hello == <<104, 101, 108, 108, 111, 32, 102, 114, 111, 109, 32, 116, 111, 111, 108>>
Data_notes == <<110, 111, 116, 101, 115>>

\* file contents of a given length, different for different seeds
Pattern(seed, len) == [p \in 1..len |-> (seed * 31 + p * 7) % 251]

InputFile(name, data) == [name |-> name, data |-> data]

\* a name of 33 bytes
Name_long == [i \in 1..(DIR_ENTRY_NAME_LEN + 1) |-> 120]

\* nine files f1 .. f9, more than one directory block holds
NineFiles == [i \in 1..9 |-> InputFile(<<102, 48 + i>>, Pattern(i, i))]

FileLists ==
    {<<>>,
     <<InputFile(Name_hello, Data_hello)>>,
     <<InputFile(Name_hello, Data_hello), InputFile(Name_notes, Data_notes)>>,
     <<InputFile(Name_notes, <<>>), InputFile(Name_hello, Data_hello)>>,
     <<InputFile(Name_hello, Pattern(1, 700)), InputFile(Name_a, <<>>)>>,
     <<InputFile(Name_a, Pattern(2, BLOCK_SIZE)),
       InputFile(Name_notes, Pattern(3, BLOCK_SIZE + 1))>>,
     <<InputFile(Name_a, Pattern(4, U32))>>,
     <<InputFile(Name_long, Data_notes)>>,
     NineFiles}

\* ---- inputs: images that no tool wrote ----
\* a directory record as it lies on the disk
RawEntry(name, name_len, file_start_block, file_block_count, file_size) ==
    [name |-> name, name_len |-> name_len, file_start_block |-> file_start_block,
     file_block_count |-> file_block_count, file_size |-> file_size, flags |-> 0]

UnusedEntry == RawEntry(Zeros(DIR_ENTRY_NAME_LEN), 0, 0, 0, 0)

\* a disk of nsectors sectors laid out by hand as tests::mounts_simple_image
\* does: superblock in sector 0, the records from sector 1 on, every other
\* sector filled with bytes that differ from sector to sector
raw_image(sb, slots, nsectors) ==
    LET fill == [p \in 1..(nsectors * BLOCK_SIZE) |->
                    (((p - 1) \div BLOCK_SIZE) * 16 + p) % 251]
        dir_sectors == Min(sb.dir_block_count, Max(nsectors - 1, 0))
        cleared == copy_from_slice(fill, BLOCK_SIZE, Zeros(dir_sectors * BLOCK_SIZE))
        with_sb == copy_from_slice(cleared, 0, Superblock_encode(sb))
    IN  sectors_from_image(place_entries(with_sb, slots, 1))

\* a name array that is no UTF-8 text in its first two bytes
Name_bad == [i \in 1..DIR_ENTRY_NAME_LEN |-> IF i = 1 THEN 97 ELSE 255]

RawImages ==
    {\* two files with an unused slot between them
     raw_image(Superblock_new(6, 3, 1),
               <<RawEntry(pad_name(Name_hello), 9, 2, 1, 15), UnusedEntry,
                 RawEntry(pad_name(Name_notes), 9, 3, 2, 700)>>, 6),
     \* a record whose name is no UTF-8 text
     raw_image(Superblock_new(4, 2, 1),
               <<RawEntry(Name_bad, 2, 2, 1, 5),
                 RawEntry(pad_name(Name_hello), 9, 3, 1, 15)>>, 4),
     \* a record whose name_len exceeds the name array
     raw_image(Superblock_new(4, 2, 1),
               <<RawEntry(pad_name(Name_hello), 33, 2, 1, 5),
                 RawEntry(pad_name(Name_notes), 9, 3, 1, 15)>>, 4),
     \* two files sharing their blocks, under the same name
     raw_image(Superblock_new(4, 2, 1),
               <<RawEntry(pad_name(Name_hello), 9, 2, 2, 600),
                 RawEntry(pad_name(Name_hello), 9, 3, 1, 15)>>, 4),
     \* a file reaching beyond total_blocks and beyond the disk
     raw_image(Superblock_new(3, 1, 1),
               <<RawEntry(pad_name(Name_hello), 9, 2, 5, 2000)>>, 3),
     \* a file longer than its blocks, followed by another file
     raw_image(Superblock_new(4, 2, 1),
               <<RawEntry(pad_name(Name_hello), 9, 2, 1, 600),
                 RawEntry(pad_name(Name_notes), 9, 3, 1, 15)>>, 4),
     \* a file that starts in the superblock
     raw_image(Superblock_new(3, 1, 1),
               <<RawEntry(pad_name(Name_hello), 9, 0, 1, 40)>>, 3),
     \* more slots than the directory blocks hold
     raw_image(Superblock_new(3, 9, 1),
               <<RawEntry(pad_name(Name_hello), 9, 2, 1, 15)>>, 3),
     \* more directory blocks than the disk has
     raw_image(Superblock_new(2, 1, 3),
               <<RawEntry(pad_name(Name_hello), 9, 2, 1, 15)>>, 2),
     \* no superblock; no sector at all
     <<Zeros(BLOCK_SIZE), Zeros(BLOCK_SIZE)>>,
     <<>>}

\* the images the tool builds from FileLists
ToolBuilds == {files \in FileLists : build_image(files).ok}

FaultyLbas == {-1, 0, 1, 2}

InitFs ==
    /\ \/ \E files \in ToolBuilds :
             /\ disk = sectors_from_image(build_image(files).val)
             /\ built_from = [tool |-> TRUE, files |-> files]
       \/ /\ disk \in RawImages
          /\ built_from = [tool |-> FALSE, files |-> <<>>]
    /\ faulty \in FaultyLbas
    /\ fs = [ok |-> FALSE, val |-> <<>>, err |-> "unmounted"]
    /\ fs_op = NoOp
    /\ KernelIdle
    /\ ArchIdle
    /\ CodecIdle
    /\ PathIdle
    /\ ShellIdle

\* SimpleFs::mount(device), once
mount ==
    /\ ~fs.ok
    /\ fs.err = "unmounted"
    /\ fs' = SimpleFs_mount(disk, faulty)
    /\ UNCHANGED <<disk, faulty, fs_op, built_from>>
    /\ UNCHANGED exceptFs

\* SimpleFs::entry_name as Option: Ok(name) for Some(name), Err for None
entry_name(e) == DirEntry_name(e)

\* mutant: the last matching entry is returned
SimpleFs_lookup_last(v, parent, name) ==
    LET matching == {i \in 1..Len(v.entries) : entry_name(v.entries[i]) = Ok(name)}
    IN  IF parent # 0 THEN Err("NotDirectory")
        ELSE IF matching = {} THEN Err("NotFound")
        ELSE Ok(CHOOSE i \in matching : \A j \in matching : i >= j)

\* SimpleFs::lookup; entry_node(i) = NodeId(i + 1) for the 0-based index i,
\* which is the 1-based position in entries
SimpleFs_lookup(v, parent, name) ==
    LET matching == {i \in 1..Len(v.entries) : entry_name(v.entries[i]) = Ok(name)}
    IN  IF parent # 0 THEN Err("NotDirectory")
        ELSE IF matching = {} THEN Err("NotFound")
        ELSE Ok(CHOOSE i \in matching : \A j \in matching : i <= j)

\* SimpleFs::metadata
SimpleFs_metadata(v, node) ==
    IF node = 0
    THEN Ok([node_type |-> "Directory", size |-> Len(v.entries)])
    ELSE IF node > Len(v.entries) THEN Err("NotFound")
    ELSE Ok([node_type |-> "File", size |-> v.entries[node].file_size])

\* mutant: every sector is copied from its first byte on
RECURSIVE read_loop_from_sector_start(_, _, _, _, _, _, _)
read_loop_from_sector_start(entry, d, f, out, read_total, max_bytes, abs) ==
    IF ~(read_total < max_bytes)
    THEN [res |-> Ok(read_total), out |-> out, lbas |-> <<>>]
    ELSE LET block_index == abs \div BLOCK_SIZE
             block_offset == abs % BLOCK_SIZE
             lba == entry.file_start_block + block_index
             scratch == dev_read_sector(d, f, lba, BLOCK_SIZE)
             to_copy == Min(max_bytes - read_total, BLOCK_SIZE - block_offset)
         IN  IF ~scratch.ok
             THEN [res |-> Err(map_block_error(scratch.err)), out |-> out,
                   lbas |-> <<lba>>]
             ELSE [read_loop_from_sector_start(entry, d, f,
                            copy_from_slice(out, read_total,
                                            slice(scratch.val, 0, to_copy)),
                            read_total + to_copy, max_bytes, abs + to_copy)
                   EXCEPT !.lbas = <<lba>> \o @]

\* SimpleFs::read, the loop of lines 144-160: the buffer and the byte count
\* so far, or the mapped device error (the buffer keeps what was copied),
\* and the sectors asked of the device, in order
RECURSIVE read_loop(_, _, _, _, _, _, _)
read_loop(entry, d, f, out, read_total, max_bytes, abs) ==
    IF ~(read_total < max_bytes)
    THEN [res |-> Ok(read_total), out |-> out, lbas |-> <<>>]
    ELSE LET block_index == abs \div BLOCK_SIZE
             block_offset == abs % BLOCK_SIZE
             lba == entry.file_start_block + block_index
             scratch == dev_read_sector(d, f, lba, BLOCK_SIZE)
             to_copy == Min(max_bytes - read_total, BLOCK_SIZE - block_offset)
         IN  IF ~scratch.ok
             THEN [res |-> Err(map_block_error(scratch.err)), out |-> out,
                   lbas |-> <<lba>>]
             ELSE [read_loop(entry, d, f,
                             copy_from_slice(out, read_total,
                                             slice(scratch.val, block_offset,
                                                   block_offset + to_copy)),
                             read_total + to_copy, max_bytes, abs + to_copy)
                   EXCEPT !.lbas = <<lba>> \o @]

\* SimpleFs::read(node, offset, out)
SimpleFs_read(v, d, f, node, offset, out) ==
    IF node = 0 THEN [res |-> Err("NotFile"), out |-> out, lbas |-> <<>>]
    ELSE IF node > Len(v.entries)
    THEN [res |-> Err("NotFound"), out |-> out, lbas |-> <<>>]
    ELSE IF offset >= v.entries[node].file_size
    THEN [res |-> Ok(0), out |-> out, lbas |-> <<>>]
    ELSE read_loop(v.entries[node], d, f, out, 0,
                   Min(Len(out), v.entries[node].file_size - offset), offset)

\* ---- inputs of the FileSystem calls ----
NodeIds == {0, 1, 2, 3, 9, 10}
\* names are &str: UTF-8 text ("hello.txt", "notes.txt", "a", "\u{e4}", "f9", "")
LookupNames == {Name_hello, Name_notes, Name_a, <<195, 164>>, <<102, 57>>, <<>>}
ReadOffsets == {0, 3, BLOCK_SIZE - 1, BLOCK_SIZE, 699, 700, U32}
ReadLens == {0, 1, 32, BLOCK_SIZE, 600, 4 * BLOCK_SIZE}
ChunkLens == {0, 32, BLOCK_SIZE, 600}

\* No FileSystem call changes the mounted file system or the disk, so a
\* behaviour makes one call on the mounted file system and, after a read,
\* goes on reading chunk by chunk.

\* FileSystem::lookup(parent, name) on the mounted file system
lookup(parent, name) ==
    /\ fs.ok
    /\ fs_op.op = "none"
    /\ fs_op' = [NoOp EXCEPT !.op = "lookup", !.node = parent, !.name = name,
                             !.result = SimpleFs_lookup(fs.val, parent, name)]
    /\ UNCHANGED <<disk, faulty, fs, built_from>>
    /\ UNCHANGED exceptFs

\* FileSystem::metadata(node)
metadata(node) ==
    /\ fs.ok
    /\ fs_op.op = "none"
    /\ fs_op' = [NoOp EXCEPT !.op = "metadata", !.node = node,
                             !.result = SimpleFs_metadata(fs.val, node)]
    /\ UNCHANGED <<disk, faulty, fs, built_from>>
    /\ UNCHANGED exceptFs

\* the bytes a successful read returned: &out[..read]
returned(r) == IF r.res.ok THEN slice(r.out, 0, r.res.val) ELSE <<>>

\* FileSystem::read(node, offset, out) with a zeroed buffer of len bytes
read(node, offset, len) ==
    /\ fs.ok
    /\ fs_op.op = "none"
    /\ LET r == SimpleFs_read(fs.val, disk, faulty, node, offset, Zeros(len))
       IN  fs_op' = [NoOp EXCEPT !.op = "read", !.node = node, !.offset = offset,
                                 !.len = len, !.result = r.res, !.out = r.out,
                                 !.chain_start = offset, !.acc = returned(r),
                                 !.lbas = r.lbas]
    /\ UNCHANGED <<disk, faulty, fs, built_from>>
    /\ UNCHANGED exceptFs

\* the next read of a caller that reads a file chunk by chunk (run_cat,
\* shell.rs:316-327): same node, offset advanced by the bytes just returned
read_next(len) ==
    /\ fs.ok
    /\ fs_op.op = "read"
    /\ fs_op.result.ok
    /\ LET offset == fs_op.offset + fs_op.result.val
           r == SimpleFs_read(fs.val, disk, faulty, fs_op.node, offset, Zeros(len))
       IN  fs_op' = [fs_op EXCEPT !.offset = offset, !.len = len,
                                  !.result = r.res, !.out = r.out,
                                  !.acc = fs_op.acc \o returned(r),
                                  !.lbas = r.lbas]
    /\ UNCHANGED <<disk, faulty, fs, built_from>>
    /\ UNCHANGED exceptFs

NextFs ==
    \/ mount
    \/ \E parent \in NodeIds, name \in LookupNames : lookup(parent, name)
    \/ \E node \in NodeIds : metadata(node)
    \/ \E node \in NodeIds, offset \in ReadOffsets, len \in ReadLens :
          read(node, offset, len)
    \/ \E len \in ChunkLens : read_next(len)

SpecFs == InitFs /\ [][NextFs]_vars

-----------------------------------------------------------------------------
(* SimpleFs: properties *)

\* mount has run
Mounted == fs.ok
MountFailed == ~fs.ok /\ fs.err # "unmounted"

\* the superblock that lies in sector 0 of the disk
OnDiskSuperblock == Superblock_decode(disk[1]).val

\* the device delivers sector 0 with a valid superblock and every directory
\* block the superblock names
DirectoryReadable ==
    /\ dev_read_sector(disk, faulty, 0, BLOCK_SIZE).ok
    /\ Superblock_decode(disk[1]).ok
    /\ \A b \in 0..(OnDiskSuperblock.dir_block_count - 1) :
          dev_read_sector(disk, faulty, OnDiskSuperblock.dir_start_block + b,
                          BLOCK_SIZE).ok

\* directory slot i (0-based) as it lies on the disk
OnDiskSlot(i) ==
    DirEntry_decode(
        [k \in 1..DIR_ENTRY_SIZE |->
            disk[OnDiskSuperblock.dir_start_block
                 + ((i * DIR_ENTRY_SIZE + k - 1) \div BLOCK_SIZE) + 1]
                [((i * DIR_ENTRY_SIZE + k - 1) % BLOCK_SIZE) + 1]])

SlotInside(i) ==
    (i + 1) * DIR_ENTRY_SIZE <= OnDiskSuperblock.dir_block_count * BLOCK_SIZE

\* name[..name_len] of a record is valid UTF-8 of at most 32 bytes
ValidName(e) ==
    /\ e.name_len <= DIR_ENTRY_NAME_LEN
    /\ from_utf8_ok(SubSeq(e.name, 1, e.name_len))

\* the slots mount is to keep, in on-disk order
RECURSIVE UsedSlotsFrom(_)
UsedSlotsFrom(i) ==
    IF i >= OnDiskSuperblock.dir_entry_count THEN <<>>
    ELSE IF OnDiskSlot(i).name_len # 0
         THEN <<OnDiskSlot(i)>> \o UsedSlotsFrom(i + 1)
         ELSE UsedSlotsFrom(i + 1)

\* C14: mount keeps exactly the slots i in [0, dir_entry_count) whose
\* name_len is not 0, in on-disk order, and fails with an I/O error if a
\* kept record's name is not valid UTF-8 (or its name_len exceeds 32) or if
\* a slot lies outside the directory blocks that were read.
C14_MountKeepsUsedSlots ==
    (DirectoryReadable /\ (Mounted \/ MountFailed)) =>
        LET count == OnDiskSuperblock.dir_entry_count
            outside == \E i \in 0..(count - 1) : ~SlotInside(i)
            bad_name == /\ ~outside
                        /\ \E i \in 0..(count - 1) :
                              /\ OnDiskSlot(i).name_len # 0
                              /\ ~ValidName(OnDiskSlot(i))
        IN  /\ (outside \/ bad_name) => (MountFailed /\ fs.err = "Io")
            /\ Mounted => fs.val.entries = UsedSlotsFrom(0)

\* what mount does of C14: it keeps the used slots in order and fails with
\* Io when a slot lies outside the directory blocks
MountKeepsUsedSlotsUnvalidated ==
    (DirectoryReadable /\ (Mounted \/ MountFailed)) =>
        LET count == OnDiskSuperblock.dir_entry_count
            outside == \E i \in 0..(count - 1) : ~SlotInside(i)
        IN  IF outside THEN MountFailed /\ fs.err = "Io"
            ELSE Mounted /\ fs.val.entries = UsedSlotsFrom(0)

\* the block range of a live entry
FileBlocks(e) == e.file_start_block..(e.file_start_block + e.file_block_count - 1)

\* C15: on every image that mounts, every live entry has 1 <= name_len <= 32,
\* a valid UTF-8 name, file_start_block >= data_start_block and
\* file_start_block + file_block_count <= total_blocks, and no two live
\* entries' block ranges overlap.
C15_MountedEntriesWellFormed ==
    Mounted =>
        LET es == fs.val.entries
            sb == fs.val.superblock
        IN  /\ \A i \in 1..Len(es) :
                  /\ es[i].name_len >= 1
                  /\ ValidName(es[i])
                  /\ es[i].file_start_block >= sb.data_start_block
                  /\ es[i].file_start_block + es[i].file_block_count <= sb.total_blocks
            /\ \A i, j \in 1..Len(es) :
                  i # j => FileBlocks(es[i]) \cap FileBlocks(es[j]) = {}

\* the bytes of a live entry's name equal the looked-up text
NameEquals(e, name) ==
    /\ e.name_len = Len(name)
    /\ Len(name) <= DIR_ENTRY_NAME_LEN
    /\ \A k \in 1..Len(name) : e.name[k] = name[k]

\* C16: lookup(parent, name) returns NotDirectory for every parent other
\* than NodeId(0); for the root it returns NodeId(i+1), i the mount-order
\* index of the first live entry whose name equals name, and NotFound if
\* there is none; metadata of the returned node is a File whose size is that
\* entry's file_size.
C16_LookupFirstMatch ==
    fs_op.op = "lookup" =>
        LET es == fs.val.entries
            matching == {i \in 1..Len(es) : NameEquals(es[i], fs_op.name)}
        IN  IF fs_op.node # 0 THEN IsErr(fs_op.result, "NotDirectory")
            ELSE IF matching = {} THEN IsErr(fs_op.result, "NotFound")
            ELSE /\ fs_op.result.ok
                 /\ fs_op.result.val \in matching
                 /\ \A j \in matching : fs_op.result.val <= j
                 /\ IsOk(SimpleFs_metadata(fs.val, fs_op.result.val),
                         [node_type |-> "File",
                          size |-> es[fs_op.result.val].file_size])

\* C16 witness: two live entries are named hello.txt; lookup returned the
\* first one
C16_Witness ==
    /\ fs_op.op = "lookup"
    /\ fs_op.node = 0
    /\ fs_op.name = Name_hello
    /\ IsOk(fs_op.result, 1)
    /\ Len(fs.val.entries) = 2
    /\ NameEquals(fs.val.entries[2], Name_hello)

\* byte p (0-based) of a file, as it lies on the disk
FileByte(e, p) ==
    disk[e.file_start_block + (p \div BLOCK_SIZE) + 1][(p % BLOCK_SIZE) + 1]

\* the device delivers every sector that holds bytes [from, to) of the file
SectorsReadable(e, from, to) ==
    \A p \in from..(to - 1) :
        dev_read_sector(disk, faulty, e.file_start_block + (p \div BLOCK_SIZE),
                        BLOCK_SIZE).ok

\* C17: for a file node of size S on a device whose reads succeed,
\* read(node, offset, out) returns 0 when offset >= S and otherwise exactly
\* n = min(out.len, S - offset), with out[0..n) the file's bytes
\* [offset, offset+n) taken from sector file_start_block + floor(pos/512) at
\* in-sector offset pos mod 512; the chunks of consecutive reads, put
\* together, are the bytes one whole read returns.
C17_ReadReturnsFileBytes ==
    (fs_op.op = "read" /\ fs_op.node >= 1 /\ fs_op.node <= Len(fs.val.entries)) =>
        LET e == fs.val.entries[fs_op.node]
            S == e.file_size
            n == Min(fs_op.len, S - fs_op.offset)
            total == Len(fs_op.acc)
            whole == SimpleFs_read(fs.val, disk, faulty, fs_op.node,
                                   fs_op.chain_start, Zeros(total))
        IN  IF fs_op.offset >= S THEN IsOk(fs_op.result, 0)
            ELSE SectorsReadable(e, fs_op.offset, fs_op.offset + n) =>
                    /\ IsOk(fs_op.result, n)
                    /\ \A k \in 1..n : fs_op.out[k] = FileByte(e, fs_op.offset + k - 1)
                    /\ \A k \in (n + 1)..fs_op.len : fs_op.out[k] = 0
                    /\ total = fs_op.offset + n - fs_op.chain_start
                    /\ \A k \in 1..total :
                          fs_op.acc[k] = FileByte(e, fs_op.chain_start + k - 1)
                    /\ IsOk(whole.res, total)
                    /\ whole.out = fs_op.acc

\* C17 witness: a 700-byte file was read from offset 0 in chunks of 600
\* bytes; the second chunk ended the file in its second sector
C17_Witness ==
    /\ fs_op.op = "read"
    /\ fs_op.node = 1
    /\ Len(fs.val.entries) >= 1
    /\ fs.val.entries[1].file_size = 700
    /\ fs_op.chain_start = 0
    /\ fs_op.offset = 600
    /\ fs_op.len = 600
    /\ IsOk(fs_op.result, 100)
    /\ Len(fs_op.acc) = 700

\* the host files the image was built from, when the tool built it and the
\* device under the mounted file system reports no fault
ToolImage == built_from.tool /\ faulty = -1 /\ (Mounted \/ MountFailed)

\* what C18 states of a tool-built image for the given files
MountsAndReadsBack(files) ==
    /\ Mounted
    /\ IsOk(SimpleFs_metadata(fs.val, 0),
            [node_type |-> "Directory", size |-> Len(files)])
    /\ \A i \in 1..Len(files) :
          LET lk == SimpleFs_lookup(fs.val, 0, files[i].name)
          IN  /\ lk.ok
              /\ IsOk(SimpleFs_metadata(fs.val, lk.val),
                      [node_type |-> "File", size |-> Len(files[i].data)])
              /\ LET r == SimpleFs_read(fs.val, disk, faulty, lk.val, 0,
                                        Zeros(Len(files[i].data)))
                 IN  IsOk(r.res, Len(files[i].data)) /\ r.out = files[i].data
    /\ Len(fs.val.entries) = Len(files)
    /\ \A i \in 1..Len(fs.val.entries) :
          fs.val.entries[i].file_start_block =
              IF i = 1 THEN fs.val.superblock.data_start_block
              ELSE fs.val.entries[i - 1].file_start_block
                   + fs.val.entries[i - 1].file_block_count

\* C18: for every list of input files with distinct valid names, the image
\* build_image produces mounts, the root's metadata size is the number of
\* files, every file is found by name with metadata.size its length and
\* read(node, 0, ..) returning its bytes, and the file regions are
\* contiguous, in directory order, starting at data_start_block.
C18_ToolImageMountsAndReadsBack ==
    ToolImage => MountsAndReadsBack(built_from.files)

\* the same for files shorter than 2^32 bytes
ToolImageOfSmallFilesReadsBack ==
    (ToolImage /\ \A i \in 1..Len(built_from.files) :
                     Len(built_from.files[i].data) < U32)
    => MountsAndReadsBack(built_from.files)

-----------------------------------------------------------------------------
(* Path resolution: fs/vfs.rs *)

\* A path is a sequence of characters.

\* `path.starts_with('/')`
starts_with_slash(path) == Len(path) >= 1 /\ path[1] = "/"

\* `path.split('/')`: the pieces between the separators, empty ones included
RECURSIVE split_at_slash(_)
split_at_slash(path) ==
    LET slashes == {i \in 1..Len(path) : path[i] = "/"}
        first == CHOOSE i \in slashes : \A j \in slashes : i <= j
    IN  IF slashes = {} THEN <<path>>
        ELSE <<SubSeq(path, 1, first - 1)>>
             \o split_at_slash(SubSeq(path, first + 1, Len(path)))

\* mutant: empty parts are kept
RECURSIVE split_loop_keeping_empty(_, _, _)
split_loop_keeping_empty(parts, i, out) ==
    IF i > Len(parts) THEN Ok(out)
    ELSE IF parts[i] = <<".">> \/ parts[i] = <<".", ".">> THEN Err("InvalidPath")
    ELSE split_loop_keeping_empty(parts, i + 1, Append(out, parts[i]))

\* split_path, lines 72-80
RECURSIVE split_loop(_, _, _)
split_loop(parts, i, out) ==
    IF i > Len(parts) THEN Ok(out)
    ELSE IF parts[i] = <<>> THEN split_loop(parts, i + 1, out)
    ELSE IF parts[i] = <<".">> \/ parts[i] = <<".", ".">> THEN Err("InvalidPath")
    ELSE split_loop(parts, i + 1, Append(out, parts[i]))

\* split_path
split_path_of(path) ==
    IF ~starts_with_slash(path) THEN Err("InvalidPath")
    ELSE split_loop(split_at_slash(path), 1, <<>>)

\* tests::MockFs: / (1) holds the directory etc (2), which holds the file
\* hosts (3)
Seg_etc == <<"e", "t", "c">>
Seg_hosts == <<"h", "o", "s", "t", "s">>

MockFs_root == 1

MockFs_lookup(parent, name) ==
    IF parent = 1 /\ name = Seg_etc THEN Ok(2)
    ELSE IF parent = 2 /\ name = Seg_hosts THEN Ok(3)
    ELSE Err("NotFound")

MockFs_metadata(node) ==
    IF node = 1 \/ node = 2 THEN Ok([node_type |-> "Directory", size |-> 0])
    ELSE IF node = 3 THEN Ok([node_type |-> "File", size |-> 10])
    ELSE Err("NotFound")

\* resolve_path, lines 88-96: the result and the FileSystem calls made
RECURSIVE resolve_loop(_, _, _, _)
resolve_loop(parts, i, current, calls) ==
    IF i > Len(parts) THEN [res |-> Ok(current), calls |-> calls]
    ELSE LET meta == MockFs_metadata(current)
             c1 == Append(calls, <<"metadata", current, <<>>>>)
             next == MockFs_lookup(current, parts[i])
             c2 == Append(c1, <<"lookup", current, parts[i]>>)
         IN  IF ~meta.ok THEN [res |-> meta, calls |-> c1]
             ELSE IF meta.val.node_type # "Directory"
                  THEN [res |-> Err("NotDirectory"), calls |-> c1]
             ELSE IF ~next.ok THEN [res |-> next, calls |-> c2]
             ELSE resolve_loop(parts, i + 1, next.val, c2)

\* resolve_path(fs, path) over MockFs
resolve_path_of(path) ==
    LET parts == split_path_of(path)
    IN  IF ~parts.ok THEN [res |-> parts, calls |-> <<>>]
        ELSE resolve_loop(parts.val, 1, MockFs_root, <<>>)

\* ---- inputs ----
MaxPathLen == 4
PathChars == {"/", ".", "a"}

\* every string of at most n characters
RECURSIVE StringsUpTo(_)
StringsUpTo(n) ==
    IF n = 0 THEN {<<>>}
    ELSE StringsUpTo(n - 1)
         \cup {Append(p, c) : p \in {q \in StringsUpTo(n - 1) : Len(q) = n - 1},
                              c \in PathChars}

\* "/etc/hosts", "etc/hosts", "/etc//hosts/", "/etc/../hosts", "/etc/./hosts",
\* "/etc/hosts/a", "/etc/a", "//etc", "/etc/.hosts"
LongPaths ==
    {<<"/">> \o Seg_etc \o <<"/">> \o Seg_hosts,
     Seg_etc \o <<"/">> \o Seg_hosts,
     <<"/">> \o Seg_etc \o <<"/", "/">> \o Seg_hosts \o <<"/">>,
     <<"/">> \o Seg_etc \o <<"/", ".", ".", "/">> \o Seg_hosts,
     <<"/">> \o Seg_etc \o <<"/", ".", "/">> \o Seg_hosts,
     <<"/">> \o Seg_etc \o <<"/">> \o Seg_hosts \o <<"/", "a">>,
     <<"/">> \o Seg_etc \o <<"/", "a">>,
     <<"/", "/">> \o Seg_etc,
     <<"/">> \o Seg_etc \o <<"/", ".">> \o Seg_hosts}

Paths == StringsUpTo(MaxPathLen) \cup LongPaths

InitPath ==
    /\ PathIdle
    /\ KernelIdle
    /\ ArchIdle
    /\ CodecIdle
    /\ FsIdle
    /\ ShellIdle

\* split_path(path)
split_path(path) ==
    /\ path_op = "none"
    /\ path_in' = path
    /\ path_op' = "split_path"
    /\ path_out' = split_path_of(path)
    /\ UNCHANGED fs_calls
    /\ UNCHANGED exceptPath

\* resolve_path(&MockFs, path)
resolve_path(path) ==
    /\ path_op = "none"
    /\ path_in' = path
    /\ path_op' = "resolve_path"
    /\ path_out' = resolve_path_of(path).res
    /\ fs_calls' = resolve_path_of(path).calls
    /\ UNCHANGED exceptPath

NextPath ==
    \/ \E path \in Paths : split_path(path)
    \/ \E path \in Paths : resolve_path(path)

SpecPath == InitPath /\ [][NextPath]_vars

-----------------------------------------------------------------------------
(* Path resolution: properties *)

\* path[i..j] is a whole segment: bounded by slashes or the ends of the path
\* and free of slashes
IsSegment(path, i, j) ==
    /\ i <= j
    /\ \A k \in i..j : path[k] # "/"
    /\ i = 1 \/ path[i - 1] = "/"
    /\ j = Len(path) \/ path[j + 1] = "/"

HasDotSegment(path) ==
    \E i, j \in 1..Len(path) :
        /\ IsSegment(path, i, j)
        /\ SubSeq(path, i, j) \in {<<".">>, <<".", ".">>}

\* "/" + seg1 + "/" + seg2 + ...
RECURSIVE Joined(_)
Joined(segs) ==
    IF segs = <<>> THEN <<>> ELSE <<"/">> \o Head(segs) \o Joined(Tail(segs))

\* the path without repeated and trailing slashes
Collapsed(path) ==
    SelectSeq([i \in 1..Len(path) |->
                  IF path[i] = "/" /\ (i = Len(path) \/ path[i + 1] = "/")
                  THEN "" ELSE path[i]],
              LAMBDA c : c # "")

\* C19: split_path fails with InvalidPath for every path that does not
\* start with '/' and for every path with a '.' or '..' segment; otherwise
\* it returns the non-empty segments in order, repeated and trailing slashes
\* ignored; resolve_path(fs, "/") returns fs.root() without calling lookup.
C19_SplitAndResolveRoot ==
    /\ path_op = "split_path" =>
          IF ~starts_with_slash(path_in) \/ HasDotSegment(path_in)
          THEN IsErr(path_out, "InvalidPath")
          ELSE /\ path_out.ok
               /\ \A k \in 1..Len(path_out.val) :
                     /\ path_out.val[k] # <<>>
                     /\ \A c \in 1..Len(path_out.val[k]) : path_out.val[k][c] # "/"
               /\ Joined(path_out.val) = Collapsed(path_in)
    /\ (path_op = "resolve_path" /\ path_in = <<"/">>) =>
          /\ IsOk(path_out, MockFs_root)
          /\ \A k \in 1..Len(fs_calls) : fs_calls[k][1] # "lookup"

\* C19 witness: "/etc//hosts/" was split into etc, hosts
C19_Witness ==
    /\ path_op = "split_path"
    /\ path_in = <<"/">> \o Seg_etc \o <<"/", "/">> \o Seg_hosts \o <<"/">>
    /\ IsOk(path_out, <<Seg_etc, Seg_hosts>>)

-----------------------------------------------------------------------------
(* Shell command parser: shell.rs *)

\* A line is a sequence of bytes; 32 is b' '.
SPACE == 32

\* the command words, as bytes
W_help == <<104, 101, 108, 112>>
W_clear == <<99, 108, 101, 97, 114>>
W_history == <<104, 105, 115, 116, 111, 114, 121>>
W_mem == <<109, 101, 109>>
W_ticks == <<116, 105, 99, 107, 115>>
W_panic == <<112, 97, 110, 105, 99>>
W_halt == <<104, 97, 108, 116>>
W_reboot == <<114, 101, 98, 111, 111, 116>>
W_echo == <<101, 99, 104, 111>>
W_ls == <<108, 115>>
W_cat == <<99, 97, 116>>
W_stat == <<115, 116, 97, 116>>

\* mutant: only leading spaces are removed
RECURSIVE trim_spaces_leading_only(_)
trim_spaces_leading_only(input) ==
    IF input # <<>> /\ Head(input) = SPACE
    THEN trim_spaces_leading_only(Tail(input))
    ELSE input

\* trim_spaces, first loop: drop leading spaces
RECURSIVE trim_leading(_)
trim_leading(input) ==
    IF input # <<>> /\ Head(input) = SPACE THEN trim_leading(Tail(input)) ELSE input

\* trim_spaces, second loop: drop trailing spaces
RECURSIVE trim_trailing(_)
trim_trailing(input) ==
    IF input # <<>> /\ input[Len(input)] = SPACE
    THEN trim_trailing(SubSeq(input, 1, Len(input) - 1))
    ELSE input

\* trim_spaces
trim_spaces(input) == trim_trailing(trim_leading(input))

\* split_cmd_arg: at the first space, the argument trimmed
split_cmd_arg(input) ==
    LET spaces == {i \in 1..Len(input) : input[i] = SPACE}
        space == CHOOSE i \in spaces : \A j \in spaces : i <= j
    IN  IF spaces = {} THEN [cmd |-> input, arg |-> <<>>]
        ELSE [cmd |-> SubSeq(input, 1, space - 1),
              arg |-> trim_spaces(SubSeq(input, space + 1, Len(input)))]

ParsedCommand(kind, arg) == [kind |-> kind, arg |-> arg]

\* the match of parse_command, lines 387-440
match_command(cmd, arg) ==
    IF cmd = W_help /\ arg = <<>> THEN ParsedCommand("Help", <<>>)
    ELSE IF cmd = W_clear /\ arg = <<>> THEN ParsedCommand("Clear", <<>>)
    ELSE IF cmd = W_history /\ arg = <<>> THEN ParsedCommand("History", <<>>)
    ELSE IF cmd = W_mem /\ arg = <<>> THEN ParsedCommand("Mem", <<>>)
    ELSE IF cmd = W_ticks /\ arg = <<>> THEN ParsedCommand("Ticks", <<>>)
    ELSE IF cmd = W_panic /\ arg = <<>> THEN ParsedCommand("Panic", <<>>)
    ELSE IF cmd = W_halt /\ arg = <<>> THEN ParsedCommand("Halt", <<>>)
    ELSE IF cmd = W_reboot /\ arg = <<>> THEN ParsedCommand("Reboot", <<>>)
    ELSE IF cmd = W_echo /\ arg # <<>> THEN ParsedCommand("Echo", arg)
    ELSE IF cmd = W_ls THEN ParsedCommand("Ls", IF arg = <<>> THEN <<47>> ELSE arg)
    ELSE IF cmd = W_cat /\ arg # <<>> THEN ParsedCommand("Cat", arg)
    ELSE IF cmd = W_stat /\ arg # <<>> THEN ParsedCommand("Stat", arg)
    ELSE ParsedCommand("Unknown", <<>>)

\* parse_command
parse_command(line) ==
    IF trim_spaces(line) = <<>> THEN ParsedCommand("Empty", <<>>)
    ELSE match_command(split_cmd_arg(trim_spaces(line)).cmd,
                       split_cmd_arg(trim_spaces(line)).arg)

\* ---- inputs ----
MaxPad == 2

Spaces(n) == [i \in 1..n |-> SPACE]

\* words that are no command: "unknown", "helpx", "Help", "l", "help\t", "/"
OtherWords ==
    {<<117, 110, 107, 110, 111, 119, 110>>,
     <<104, 101, 108, 112, 120>>,
     <<72, 101, 108, 112>>,
     <<108>>,
     <<104, 101, 108, 112, 9>>,
     <<47>>}

CommandWords ==
    {W_help, W_clear, W_history, W_mem, W_ticks, W_panic,
     W_halt, W_reboot, W_echo, W_ls, W_cat, W_stat}

\* arguments: "hello", "/motd.txt", "a b", "a  b", "help"
Arguments ==
    {<<104, 101, 108, 108, 111>>,
     <<47, 109, 111, 116, 100, 46, 116, 120, 116>>,
     <<97, 32, 98>>,
     <<97, 32, 32, 98>>,
     <<104, 101, 108, 112>>}

InitShell ==
    /\ ShellIdle
    /\ KernelIdle
    /\ ArchIdle
    /\ CodecIdle
    /\ FsIdle
    /\ PathIdle

\* the line typed as: lead spaces, a word, and either nothing more or gap
\* spaces and an argument, then trail spaces
typed_line(lead, word, gap, arg, trail) ==
    Spaces(lead) \o word \o (IF arg = <<>> THEN <<>> ELSE Spaces(gap) \o arg)
    \o Spaces(trail)

\* parse_command(line) for a typed line (run_line, shell.rs:122)
parse(lead, word, gap, arg, trail) ==
    /\ ~line_in.typed
    /\ word = <<>> => arg = <<>>
    /\ line_in' = [line |-> typed_line(lead, word, gap, arg, trail), lead |-> lead,
                   word |-> word, gap |-> gap, arg |-> arg, trail |-> trail,
                   typed |-> TRUE]
    /\ parsed' = parse_command(typed_line(lead, word, gap, arg, trail))
    /\ UNCHANGED exceptShell

NextShell ==
    \E lead \in 0..MaxPad, trail \in 0..MaxPad, gap \in 1..MaxPad,
       word \in CommandWords \cup OtherWords \cup {<<>>},
       arg \in Arguments \cup {<<>>} :
        parse(lead, word, gap, arg, trail)

SpecShell == InitShell /\ [][NextShell]_vars

-----------------------------------------------------------------------------
(* Shell command parser: properties *)

NoArgCommands ==
    {<<W_help, "Help">>, <<W_clear, "Clear">>, <<W_history, "History">>,
     <<W_mem, "Mem">>, <<W_ticks, "Ticks">>, <<W_panic, "Panic">>,
     <<W_halt, "Halt">>, <<W_reboot, "Reboot">>}

ArgCommands == {<<W_echo, "Echo">>, <<W_cat, "Cat">>, <<W_stat, "Stat">>}

\* C20: parse_command ignores leading and trailing spaces and splits at the
\* first space into cmd and a trimmed arg: help, clear, history, mem, ticks,
\* panic, halt, reboot yield their kind only when arg is empty; echo, cat,
\* stat yield their kind with arg only when arg is non-empty; ls yields Ls
\* with arg, or with "/" when arg is empty; an all-space or empty line yields
\* Empty; anything else yields Unknown; Empty and Unknown carry an empty arg.
C20_ParseCommand ==
    line_in.typed =>
        LET word == line_in.word
            arg == line_in.arg
        IN  /\ word = <<>> => parsed = ParsedCommand("Empty", <<>>)
            /\ \A c \in NoArgCommands :
                  word = c[1] =>
                      parsed = IF arg = <<>> THEN ParsedCommand(c[2], <<>>)
                               ELSE ParsedCommand("Unknown", <<>>)
            /\ \A c \in ArgCommands :
                  word = c[1] =>
                      parsed = IF arg # <<>> THEN ParsedCommand(c[2], arg)
                               ELSE ParsedCommand("Unknown", <<>>)
            /\ word = W_ls =>
                  parsed = ParsedCommand("Ls", IF arg = <<>> THEN <<47>> ELSE arg)
            /\ word \in OtherWords => parsed = ParsedCommand("Unknown", <<>>)
            /\ parsed.kind \in {"Empty", "Unknown"} => parsed.arg = <<>>

\* C20 witness: "  echo  a b  " was parsed as Echo with the argument "a b"
C20_Witness ==
    /\ line_in.typed
    /\ line_in.lead = 2
    /\ line_in.gap = 2
    /\ line_in.trail = 2
    /\ line_in.word = W_echo
    /\ parsed = ParsedCommand("Echo", <<97, 32, 98>>)

-----------------------------------------------------------------------------
(* Shell main loop: shell.rs, fn run and fn execute_command *)

\* Scaled 128 and 16 of the source: the line holds "history" at 7.
MAX_LINE == 7
MAX_HISTORY == 2

\* b"commands: help echo clear history mem ticks ls cat stat panic halt reboot"
HELP_TEXT ==
    <<99, 111, 109, 109, 97, 110, 100, 115, 58, 32, 104, 101, 108, 112, 32, 101,
      99, 104, 111, 32, 99, 108, 101, 97, 114, 32, 104, 105, 115, 116, 111, 114,
      121, 32, 109, 101, 109, 32, 116, 105, 99, 107, 115, 32, 108, 115, 32, 99,
      97, 116, 32, 115, 116, 97, 116, 32, 112, 97, 110, 105, 99, 32, 104, 97,
      108, 116, 32, 114, 101, 98, 111, 111, 116>>

\* b"unknown command", b"Halting CPU.", b"Rebooting."
Text_unknown == <<117, 110, 107, 110, 111, 119, 110, 32, 99, 111, 109, 109, 97, 110, 100>>
Text_halting == <<72, 97, 108, 116, 105, 110, 103, 32, 67, 80, 85, 46>>
Text_rebooting == <<82, 101, 98, 111, 111, 116, 105, 110, 103, 46>>

\* mutant: DEL counts as printable
is_printable_ascii_or_del(byte) == byte >= 32 /\ byte <= 127

is_printable_ascii(byte) == byte >= 32 /\ byte <= 126

\* mutant: the new line is committed after the command has run
execute_command_commit_last(line, hist) ==
    LET p == parse_command(line)
        committed ==
            IF line # <<>>
            THEN Append(IF Len(hist) >= MAX_HISTORY THEN Tail(hist) ELSE hist, line)
            ELSE hist
    IN  [history |-> committed,
         out |-> [line |-> line, kind |-> p.kind,
                  lines |-> IF p.kind = "History" THEN hist ELSE <<>>,
                  evicted |-> line # <<>> /\ Len(hist) >= MAX_HISTORY],
         hung |-> FALSE]

\* execute_command(line, &mut history): the history after it, the lines it
\* wrote, and whether it never returns.  What ticks, mem, ls, cat and stat
\* write comes from the timer, the frame allocator and the file system.
execute_command(line, hist) ==
    LET p == parse_command(line)
        committed ==
            IF line # <<>>
            THEN Append(IF Len(hist) >= MAX_HISTORY THEN Tail(hist) ELSE hist, line)
            ELSE hist
        written ==
            CASE p.kind = "Help" -> <<HELP_TEXT>>
              [] p.kind = "Echo" -> <<p.arg>>
              [] p.kind = "History" -> committed
              [] p.kind = "Halt" -> <<Text_halting>>
              [] p.kind = "Reboot" -> <<Text_rebooting>>
              [] p.kind = "Unknown" -> <<Text_unknown>>
              [] OTHER -> <<>>
    IN  [history |-> committed,
         out |-> [line |-> line, kind |-> p.kind, lines |-> written,
                  evicted |-> line # <<>> /\ Len(hist) >= MAX_HISTORY],
         hung |-> p.kind \in {"Panic", "Halt", "Reboot"}]

\* mutant: the bytes past the replacement's length are kept in the line
replace_line_keeping_len(buf, n, replacement) ==
    LET copy_len == Min(Len(replacement), Len(buf))
    IN  [line_buf |-> [i \in 1..Len(buf) |->
                          IF i <= copy_len THEN replacement[i] ELSE buf[i]],
         len |-> Max(copy_len, n)]

\* replace_line(line_buf, len, replacement)
replace_line(buf, n, replacement) ==
    LET copy_len == Min(Len(replacement), Len(buf))
    IN  [line_buf |-> [i \in 1..Len(buf) |->
                          IF i <= copy_len THEN replacement[i] ELSE buf[i]],
         len |-> copy_len]

\* ---- inputs ----

\* the line typed: "history", then spaces up to MAX_LINE
LongLine == [i \in 1..MAX_LINE |-> IF i <= Len(W_history) THEN W_history[i] ELSE SPACE]

\* the bytes a Char event carries here: those of the line typed, and BEL and
\* DEL, which are not printable
CharBytes == {LongLine[i] : i \in 1..MAX_LINE} \cup {7, 127}

ShellKeys == {Char(b) : b \in CharBytes} \cup {Enter, Backspace, Up, Down}

\* the key continues the line typed, or falls on a full line, or is no
\* printable character
Typing(ev) ==
    IF ev.kind = "Char" /\ ev.ch \in 32..126 /\ line_len < MAX_LINE
    THEN ev.ch = LongLine[line_len + 1]
    ELSE TRUE

InitRun ==
    /\ line_buf = Zeros(MAX_LINE)
    /\ line_len = 0
    /\ history = <<>>
    /\ history_index = None
    /\ exec_out = NoExec
    /\ shell_hung = FALSE
    /\ RunAlone

\* run(): the arm of `match key` taken for ev, lines 54-108
handle_key(ev) ==
       CASE ev.kind = "Enter" ->
              LET r == execute_command(SubSeq(line_buf, 1, line_len), history)
              IN  /\ history' = r.history
                  /\ exec_out' = r.out
                  /\ shell_hung' = r.hung
                  /\ line_len' = IF r.hung THEN line_len ELSE 0
                  /\ history_index' = IF r.hung THEN history_index ELSE None
                  /\ UNCHANGED line_buf
         [] ev.kind = "Backspace" ->
              /\ line_len' = IF line_len > 0 THEN line_len - 1 ELSE line_len
              /\ history_index' = None
              /\ UNCHANGED <<line_buf, history, exec_out, shell_hung>>
         [] ev.kind = "Char" /\ is_printable_ascii(ev.ch) ->
              /\ IF line_len < MAX_LINE
                 THEN /\ line_buf' = [line_buf EXCEPT ![line_len + 1] = ev.ch]
                      /\ line_len' = line_len + 1
                 ELSE UNCHANGED <<line_buf, line_len>>
              /\ history_index' = None
              /\ UNCHANGED <<history, exec_out, shell_hung>>
         [] ev.kind = "Up" ->
              IF history = <<>>
              THEN UNCHANGED runVars
              ELSE LET index == IF history_index.some /\ history_index.val > 0
                                THEN history_index.val - 1
                                ELSE IF history_index.some THEN history_index.val
                                ELSE Len(history) - 1
                       r == replace_line(line_buf, line_len, history[index + 1])
                   IN  /\ history_index' = Some(index)
                       /\ line_buf' = r.line_buf
                       /\ line_len' = r.len
                       /\ UNCHANGED <<history, exec_out, shell_hung>>
         [] ev.kind = "Down" ->
              IF history = <<>>
              THEN UNCHANGED runVars
              ELSE IF history_index.some /\ history_index.val + 1 < Len(history)
              THEN LET r == replace_line(line_buf, line_len,
                                         history[history_index.val + 2])
                   IN  /\ history_index' = Some(history_index.val + 1)
                       /\ line_buf' = r.line_buf
                       /\ line_len' = r.len
                       /\ UNCHANGED <<history, exec_out, shell_hung>>
              ELSE IF history_index.some
              THEN LET r == replace_line(line_buf, line_len, <<>>)
                   IN  /\ history_index' = None
                       /\ line_buf' = r.line_buf
                       /\ line_len' = r.len
                       /\ UNCHANGED <<history, exec_out, shell_hung>>
              ELSE UNCHANGED runVars
         [] OTHER -> UNCHANGED runVars

\* one turn of the loop of run() in which try_read_key returned Some(ev)
key(ev) ==
    /\ ~shell_hung
    /\ Typing(ev)
    /\ handle_key(ev)
    /\ UNCHANGED exceptRun

NextRun == \E ev \in ShellKeys : key(ev)

SpecRun == InitRun /\ [][NextRun]_vars

-----------------------------------------------------------------------------
(* Shell main loop: properties *)

\* the line as the user sees it: line_buf[..len]
Line == SubSeq(line_buf, 1, line_len)

\* C21: the history never holds more than MAX_HISTORY lines; Enter on a
\* non-empty line appends it, evicting the oldest line when MAX_HISTORY are
\* held, and keeps the others in order; Enter on an empty line leaves the
\* history alone; the line is committed before the command runs, so the
\* `history` command writes the history with its own line last.
C21_HistoryRing ==
    /\ [](Len(history) <= MAX_HISTORY)
    /\ [][key(Enter) =>
            /\ Line = <<>> => history' = history
            /\ Line # <<>> /\ Len(history) < MAX_HISTORY =>
                  history' = history \o <<Line>>
            /\ Line # <<>> /\ Len(history) >= MAX_HISTORY =>
                  history' = Tail(history) \o <<Line>>
            /\ exec_out'.kind = "History" =>
                  /\ exec_out'.lines = history'
                  /\ exec_out'.lines[Len(exec_out'.lines)] = Line]_vars

\* C21 witness: `history` was entered on a full history, which evicted the
\* oldest line and wrote the history ending in "history"
C21_Witness ==
    /\ exec_out.kind = "History"
    /\ exec_out.evicted
    /\ Len(history) = MAX_HISTORY
    /\ exec_out.lines = history
    /\ history[MAX_HISTORY] = exec_out.line

\* C28: Up and Down on a history of n lines.  Up selects n-1 when nothing is
\* selected, i-1 from i > 0, stays at 0, and loads the selected line; Down
\* selects and loads i+1 from i < n-1, clears the line and the selection at
\* n-1, and changes nothing when nothing is selected; on an empty history
\* both change nothing.
C28_HistoryNavigation ==
    [][LET n == Len(history)
           i == history_index.val
       IN  /\ key(Up) /\ n > 0 =>
                 /\ history_index' =
                        Some(IF ~history_index.some THEN n - 1
                             ELSE IF i > 0 THEN i - 1 ELSE 0)
                 /\ Line' = history[history_index'.val + 1]
                 /\ history' = history
           /\ key(Down) /\ n > 0 /\ history_index.some /\ i < n - 1 =>
                 /\ history_index' = Some(i + 1)
                 /\ Line' = history[i + 2]
                 /\ history' = history
           /\ key(Down) /\ n > 0 /\ history_index.some /\ i = n - 1 =>
                 /\ history_index' = None
                 /\ Line' = <<>>
                 /\ history' = history
           /\ key(Down) /\ ~history_index.some => UNCHANGED runVars
           /\ (key(Up) \/ key(Down)) /\ n = 0 => UNCHANGED runVars]_vars

\* C28 witness: the oldest of MAX_HISTORY lines is selected and loaded, and
\* it is not the newest one
C28_Witness ==
    /\ Len(history) = MAX_HISTORY
    /\ history_index = Some(0)
    /\ Line = history[1]
    /\ history[1] # history[MAX_HISTORY]

\* C29: 0 <= len <= MAX_LINE and the line holds printable bytes only; a
\* Char appends its byte when the byte is printable and len < MAX_LINE, and
\* leaves the line alone otherwise; Backspace drops one byte when there is
\* one; Enter empties the line; a printable Char, Backspace and Enter clear
\* the history index.
C29_LineEditing ==
    /\ [](/\ line_len \in 0..MAX_LINE
          /\ \A k \in 1..line_len : line_buf[k] \in 32..126)
    /\ [][\A b \in CharBytes :
            key(Char(b)) =>
                /\ b \in 32..126 /\ line_len < MAX_LINE => Line' = Line \o <<b>>
                /\ b \notin 32..126 \/ line_len >= MAX_LINE => Line' = Line
                /\ b \in 32..126 => history_index' = None]_vars
    /\ [][key(Backspace) =>
            /\ line_len > 0 => Line' = SubSeq(Line, 1, line_len - 1)
            /\ line_len = 0 => Line' = Line
            /\ history_index' = None]_vars
    /\ [][key(Enter) /\ ~shell_hung' => line_len' = 0 /\ history_index' = None]_vars

\* C29 witness: the line is full while the history holds a line
C29_Witness ==
    /\ line_len = MAX_LINE
    /\ history # <<>>
    /\ history_index = None

-----------------------------------------------------------------------------
(* ATA PIO driver: storage/ata_pio.rs *)

ATA_DATA == 496
ATA_SECTOR_COUNT == 498
ATA_LBA_LOW == 499
ATA_LBA_MID == 500
ATA_LBA_HIGH == 501
ATA_DRIVE_HEAD == 502
ATA_STATUS_COMMAND == 503

ATA_CMD_READ_SECTORS == 32
ATA_STATUS_ERR == 1
ATA_STATUS_DF == 32
ATA_STATUS_DRQ == 8
ATA_STATUS_BSY == 128

\* Scaled 100_000 of the source.
STATUS_POLL_LIMIT == 3

\* AtaPio::primary_master().drive_select
DRIVE_SELECT == 224

\* (value & mask) != 0 for a one-bit mask
bit_set(value, mask) == (value \div mask) % 2 = 1

\* a | b for b below 16 and a with its low four bits clear
bit_or_low(a, b) == a + b

\* mutant: DRQ is looked at before ERR and DF
wait_ready_step_drq_first(status) ==
    IF bit_set(status, ATA_STATUS_BSY) THEN "continue"
    ELSE IF bit_set(status, ATA_STATUS_DRQ) THEN "ready"
    ELSE IF bit_set(status, ATA_STATUS_ERR) \/ bit_set(status, ATA_STATUS_DF)
    THEN "fault"
    ELSE "continue"

\* one pass of the loop of wait_ready over the status it read
wait_ready_step(status) ==
    IF bit_set(status, ATA_STATUS_BSY) THEN "continue"
    ELSE IF bit_set(status, ATA_STATUS_ERR) \/ bit_set(status, ATA_STATUS_DF)
    THEN "fault"
    ELSE IF bit_set(status, ATA_STATUS_DRQ) THEN "ready"
    ELSE "continue"

\* the port writes of read_sector for a 28-bit lba
command_writes(lba) ==
    <<<<ATA_DRIVE_HEAD, bit_or_low(DRIVE_SELECT, (lba \div 16777216) % 16)>>,
      <<ATA_SECTOR_COUNT, 1>>,
      <<ATA_LBA_LOW, lba % 256>>,
      <<ATA_LBA_MID, (lba \div 256) % 256>>,
      <<ATA_LBA_HIGH, (lba \div 65536) % 256>>,
      <<ATA_STATUS_COMMAND, ATA_CMD_READ_SECTORS>>>>

\* out[i * 2] = word & 0xFF, out[i * 2 + 1] = word >> 8, for 256 words
words_to_bytes(words) ==
    [k \in 1..(2 * Len(words)) |->
        IF k % 2 = 1 THEN words[(k + 1) \div 2] % 256
        ELSE words[k \div 2] \div 256]

\* ---- inputs ----
AtaLbas == {1, 16777216, 268435455, 268435456}
AtaBufLens == {0, 511, 512, 513}

\* every combination of BSY, DF, DRQ and ERR, and three statuses with DRDY
\* and DSC set: 0x50, 0x58, 0xD0
AtaStatuses ==
    {b + f + q + e : b \in {0, ATA_STATUS_BSY}, f \in {0, ATA_STATUS_DF},
                     q \in {0, ATA_STATUS_DRQ}, e \in {0, ATA_STATUS_ERR}}
    \cup {80, 88, 208}

\* what the device hands out at the data port: 256 times the same word, or
\* the words 0, 257, 514, ...
AtaSectors ==
    {[i \in 1..256 |-> w] : w \in {0, 43605, 65535}}
    \cup {[i \in 1..256 |-> ((i - 1) * 257) % 65536]}

InitAta ==
    /\ AtaIdle
    /\ AtaAlone

\* read_sector up to the call of wait_ready
ata_read_sector(lba, len) ==
    /\ ata_pc = "idle"
    /\ ata_req' = [lba |-> lba, len |-> len]
    /\ ata_out' = Zeros(len)
    /\ IF len # 512
       THEN /\ ata_result' = Err("InvalidBufferSize")
            /\ ata_pc' = "done"
            /\ UNCHANGED ata_ports
       ELSE IF lba > 268435455
       THEN /\ ata_result' = Err("Unsupported")
            /\ ata_pc' = "done"
            /\ UNCHANGED ata_ports
       ELSE /\ ata_ports' = command_writes(lba)
            /\ ata_pc' = "polling"
            /\ UNCHANGED ata_result
    /\ UNCHANGED <<ata_statuses, ata_words>>
    /\ UNCHANGED exceptAta

\* one pass of the loop of wait_ready: io::inb(ATA_STATUS_COMMAND) returned
\* status; the pass that uses up the limit returns Timeout
ata_poll(status) ==
    /\ ata_pc = "polling"
    /\ ata_statuses' = Append(ata_statuses, status)
    /\ CASE wait_ready_step(status) = "fault" ->
              /\ ata_result' = Err("DeviceFault")
              /\ ata_pc' = "done"
         [] wait_ready_step(status) = "ready" ->
              /\ ata_pc' = "data"
              /\ UNCHANGED ata_result
         [] OTHER ->
              IF Len(ata_statuses) + 1 >= STATUS_POLL_LIMIT
              THEN /\ ata_result' = Err("Timeout")
                   /\ ata_pc' = "done"
              ELSE UNCHANGED <<ata_pc, ata_result>>
    /\ UNCHANGED <<ata_req, ata_ports, ata_words, ata_out>>
    /\ UNCHANGED exceptAta

\* the 256 reads of the data port, and the return of Ok(())
ata_transfer(words) ==
    /\ ata_pc = "data"
    /\ ata_words' = ata_words + Len(words)
    /\ ata_out' = words_to_bytes(words)
    /\ ata_result' = Ok(<<>>)
    /\ ata_pc' = "done"
    /\ UNCHANGED <<ata_req, ata_ports, ata_statuses>>
    /\ UNCHANGED exceptAta

NextAta ==
    \/ \E lba \in AtaLbas, len \in AtaBufLens : ata_read_sector(lba, len)
    \/ \E status \in AtaStatuses : ata_poll(status)
    \/ \E words \in AtaSectors : ata_transfer(words)

SpecAta == InitAta /\ [][NextAta]_vars

-----------------------------------------------------------------------------
(* ATA PIO driver: properties *)

\* the status bits as the claim names them
Busy(status) == status \in {s \in 0..255 : (s \div 128) % 2 = 1}
Faulted(status) == status \in {s \in 0..255 : s % 2 = 1 \/ (s \div 32) % 2 = 1}
DataRequest(status) == status \in {s \in 0..255 : (s \div 8) % 2 = 1}

\* the status settles the wait: BSY clear and one of ERR, DF, DRQ set
Decisive(status) == ~Busy(status) /\ (Faulted(status) \/ DataRequest(status))

\* C22: at most STATUS_POLL_LIMIT statuses are read; statuses with BSY set
\* (and statuses with nothing set) are passed over; the first status with
\* BSY clear and ERR or DF set ends the call with DeviceFault, DRQ or not;
\* the first with BSY, ERR, DF clear and DRQ set lets the read go on; when
\* the limit is used up without either, the call returns Timeout; no word is
\* read from the data port unless the read went on.
C22_StatusPolling ==
    LET n == Len(ata_statuses)
    IN  /\ n <= STATUS_POLL_LIMIT
        /\ \A k \in 1..(n - 1) : ~Decisive(ata_statuses[k])
        /\ ata_pc = "polling" =>
              /\ n < STATUS_POLL_LIMIT
              /\ \A k \in 1..n : ~Decisive(ata_statuses[k])
              /\ ata_words = 0
        /\ n > 0 /\ ata_pc # "polling" =>
              LET last == ata_statuses[n]
              IN  /\ ~Busy(last) /\ Faulted(last) =>
                        IsErr(ata_result, "DeviceFault") /\ ata_words = 0
                  /\ ~Busy(last) /\ ~Faulted(last) /\ DataRequest(last) =>
                        /\ ata_pc \in {"data", "done"}
                        /\ ata_pc = "done" => ata_result.ok /\ ata_words = 256
                  /\ ~Decisive(last) =>
                        /\ n = STATUS_POLL_LIMIT
                        /\ IsErr(ata_result, "Timeout")
                        /\ ata_words = 0

\* C22 witness: the limit was used up on busy statuses, the last of them
\* with DRQ set, and the call returned Timeout
C22_Witness ==
    /\ Len(ata_statuses) = STATUS_POLL_LIMIT
    /\ \A k \in 1..Len(ata_statuses) : Busy(ata_statuses[k])
    /\ DataRequest(ata_statuses[STATUS_POLL_LIMIT])
    /\ IsErr(ata_result, "Timeout")
    /\ ata_words = 0

-----------------------------------------------------------------------------
(* Interrupts: arch/x86_64.rs, interrupts.rs, pic.rs, pit.rs, keyboard.rs *)

PIC1_COMMAND == 32
PIC2_COMMAND == 160
PIC_EOI == 32
PIC1_OFFSET == 32

IRQ_BASE == PIC1_OFFSET
IRQ_TIMER == IRQ_BASE
IRQ_KEYBOARD == IRQ_BASE + 1

outb(port, value) == [ev |-> "outb", port |-> port, value |-> value]
handler_ran(name, vector) == [ev |-> name, port |-> 0, value |-> vector]

\* mutant: the master is told only about its own lines' EOI when the slave
\* is involved, and not at all otherwise
send_eoi_slave_only(irq) ==
    IF irq >= 8 THEN <<outb(PIC2_COMMAND, PIC_EOI)>> ELSE <<>>

\* pic::send_eoi
send_eoi(irq) ==
    (IF irq >= 8 THEN <<outb(PIC2_COMMAND, PIC_EOI)>> ELSE <<>>)
    \o <<outb(PIC1_COMMAND, PIC_EOI)>>

\* interrupt_dispatch(vector, ..): the handler the match selects, whether it
\* returns, and the port writes that follow it
interrupt_dispatch(vector) ==
    LET v == vector % 256
        handler == IF v = IRQ_TIMER THEN "on_tick"
                   ELSE IF v = IRQ_KEYBOARD THEN "handle_irq"
                   ELSE "handle_exception"
    IN  [handler |-> handler,
         returns |-> handler # "handle_exception",
         eoi |-> IF handler # "handle_exception" /\ v >= IRQ_BASE /\ v < IRQ_BASE + 16
                 THEN send_eoi(v - IRQ_BASE)
                 ELSE <<>>]

\* the gates interrupts::init installs
InstalledGates == {0, 6, 8, 13, 14, IRQ_TIMER, IRQ_KEYBOARD}

\* mutant: interrupts are enabled on the way out, whatever they were
restore_interrupts_always(was_enabled, flag) == TRUE

\* restore_interrupts(was_enabled): the flag after it
restore_interrupts(was_enabled, flag) == IF was_enabled THEN TRUE ELSE flag

\* ---- inputs ----
MaxIrqs == 2

\* what the CPU may raise: the five exceptions with a gate, a breakpoint
\* (no gate), the timer and keyboard lines, and the master's spurious IRQ 7
\* (no gate)
RaisedVectors == {0, 3, 6, 8, 13, 14, 32, 33, 39}

Exceptions == {0, 3, 6, 8, 13, 14}

\* what port 0x60 hands to the keyboard handler: the scancodes of the ring,
\* and 'a' (0x1E), left shift (0x2A) and the release of 'a' (0x9E)
IrqScancodes == RingScancodes \cup {30, 42, 158}

InitIrq ==
    /\ interrupt_flag \in BOOLEAN
    /\ cpu_hung = FALSE
    /\ idt = InstalledGates
    /\ TICKS = 0
    /\ port_log = <<>>
    /\ last_vector = [raised |-> -1, dispatched |-> -1]
    /\ n_irqs = 0
    /\ trk_pc = "idle"
    /\ trk = NoRead
    /\ kbd = KeyboardState_new
    /\ accepted = <<>>
    /\ delivered = <<>>
    /\ last_feed = <<>>
    /\ n_feeds = 0
    /\ n_events = 0
    /\ FrameIdle
    /\ HeapIdle
    /\ CacheIdle
    /\ IrqArchAlone

\* The CPU raises vector v: an exception at any time, an interrupt line only
\* while IF is set.  A vector without a present gate ends in a general
\* protection fault.  The gate clears IF, the stub calls interrupt_dispatch,
\* and iretq restores the flags: the handler runs to its end before the
\* interrupted code goes on.  The keyboard handler reads scancode from 0x60.
raise(v, scancode) ==
    /\ ~cpu_hung
    /\ n_irqs < MaxIrqs
    /\ v \in Exceptions \/ interrupt_flag
    /\ LET d == IF v \in idt THEN v ELSE 13
           r == interrupt_dispatch(d)
           f == feed_scancode(kbd, scancode)
       IN  /\ last_vector' = [raised |-> v, dispatched |-> d]
           /\ port_log' = <<handler_ran(r.handler, d)>> \o r.eoi
           /\ cpu_hung' = ~r.returns
           /\ interrupt_flag' = IF r.returns THEN interrupt_flag ELSE FALSE
           /\ TICKS' = IF r.handler = "on_tick" THEN TICKS + 1 ELSE TICKS
           /\ IF r.handler = "handle_irq"
              THEN /\ n_feeds < MaxFeeds
                   /\ scancode \in RingScancodes \/ n_events = 0
                   /\ kbd' = f.st
                   /\ accepted' = IF f.stored THEN Append(accepted, f.pushed) ELSE accepted
                   /\ last_feed' = <<[scancode |-> scancode, pushed |-> f.pushed,
                                      stored |-> f.stored]>>
                   /\ n_events' = IF f.pushed # NoKey THEN n_events + 1 ELSE n_events
                   /\ n_feeds' = n_feeds + 1
              ELSE UNCHANGED <<kbd, accepted, last_feed, n_events, n_feeds>>
    /\ n_irqs' = n_irqs + 1
    /\ UNCHANGED <<idt, trk_pc, trk, delivered>>
    /\ UNCHANGED <<frameVars, heapVars, cacheVars, archExceptIrq>>

\* try_read_key: `let was_enabled = interrupts_enabled()`
trk_save ==
    /\ ~cpu_hung
    /\ trk_pc = "idle"
    /\ trk.returns < MaxIrqs
    /\ trk' = [trk EXCEPT !.was_enabled = interrupt_flag, !.entry_if = interrupt_flag,
                          !.accessed = FALSE]
    /\ trk_pc' = "saved"
    /\ UNCHANGED <<interrupt_flag, cpu_hung, idt, TICKS, port_log, last_vector, n_irqs>>
    /\ UNCHANGED <<kernelVars, archExceptIrq>>

\* try_read_key: disable_interrupts()
trk_disable ==
    /\ ~cpu_hung
    /\ trk_pc = "saved"
    /\ interrupt_flag' = FALSE
    /\ trk_pc' = "disabled"
    /\ UNCHANGED <<cpu_hung, idt, TICKS, port_log, last_vector, n_irqs, trk>>
    /\ UNCHANGED <<kernelVars, archExceptIrq>>

\* try_read_key: the unsafe block that reads head, tail and the slot, and
\* advances tail
trk_access ==
    /\ ~cpu_hung
    /\ trk_pc = "disabled"
    /\ IF kbd.head = kbd.tail
       THEN /\ trk' = [trk EXCEPT !.access_if = interrupt_flag, !.accessed = TRUE,
                                  !.result = NoKey]
            /\ UNCHANGED <<kbd, delivered>>
       ELSE LET code == kbd.buffer[kbd.tail]
            IN  /\ kbd' = [kbd EXCEPT !.tail = (kbd.tail + 1) % BUFFER_SIZE]
                /\ delivered' = IF decode_event(code) # NoKey
                                THEN Append(delivered, decode_event(code))
                                ELSE delivered
                /\ trk' = [trk EXCEPT !.access_if = interrupt_flag, !.accessed = TRUE,
                                      !.result = decode_event(code)]
    /\ trk_pc' = "read"
    /\ UNCHANGED <<interrupt_flag, cpu_hung, idt, TICKS, port_log, last_vector, n_irqs>>
    /\ UNCHANGED <<accepted, last_feed, n_feeds, n_events>>
    /\ UNCHANGED <<frameVars, heapVars, cacheVars, archExceptIrq>>

\* try_read_key: restore_interrupts(was_enabled), and the return
trk_restore ==
    /\ ~cpu_hung
    /\ trk_pc = "read"
    /\ interrupt_flag' = restore_interrupts(trk.was_enabled, interrupt_flag)
    /\ trk' = [trk EXCEPT !.returns = @ + 1]
    /\ trk_pc' = "idle"
    /\ UNCHANGED <<cpu_hung, idt, TICKS, port_log, last_vector, n_irqs>>
    /\ UNCHANGED <<kernelVars, archExceptIrq>>

NextIrq ==
    \/ \E v \in RaisedVectors \ {IRQ_KEYBOARD} : raise(v, 0)
    \/ \E scancode \in IrqScancodes : raise(IRQ_KEYBOARD, scancode)
    \/ trk_save
    \/ trk_disable
    \/ trk_access
    \/ trk_restore

SpecIrq == InitIrq /\ [][NextIrq]_vars

-----------------------------------------------------------------------------
(* Interrupts: properties *)

\* the writes of 0x20 to PIC command ports in the log of the last dispatch
EoiWrites == SelectSeq(port_log, LAMBDA e : e.ev = "outb")

C27_ReadKeyKeepsInterruptFlag ==
    /\ trk.accessed => ~trk.access_if
    /\ trk_pc = "idle" /\ trk.returns > 0 /\ ~cpu_hung =>
          interrupt_flag = trk.entry_if

\* C27 witness: try_read_key was entered with interrupts enabled, returned
\* an event, and interrupts are enabled again
C27_Witness ==
    /\ trk_pc = "idle"
    /\ trk.returns > 0
    /\ trk.entry_if
    /\ trk.accessed
    /\ trk.result # NoKey
    /\ interrupt_flag
    /\ ~cpu_hung

\* C26: in the keyboard ring the producer side (handle_irq, through
\* feed_scancode and push_event) never writes tail, and the consumer side
\* (try_read_key, clear_buffer) never writes head.
C26_HeadProducerOnly ==
    [][/\ (\E scancode \in Scancodes : handle_irq(scancode)) => kbd'.tail = kbd.tail
       /\ try_read_key \/ clear_buffer => kbd'.head = kbd.head]_vars

\* the same without clear_buffer: try_read_key never writes head, and the
\* producer never writes tail
HeadProducerOnlyButClear ==
    [][/\ (\E scancode \in Scancodes : handle_irq(scancode)) => kbd'.tail = kbd.tail
       /\ try_read_key => kbd'.head = kbd.head]_vars

\* C30: once HEAP_READY is set, init() leaves the cursor (start, end, next)
\* as it is, so no two allocations that returned memory overlap, the ones
\* made before and after a repeated init() included.
C30_InitIdempotent ==
    /\ [][init_calls' > init_calls /\ HEAP_READY => cursor' = cursor]_vars
    /\ [](\A i, j \in 1..Len(heap_log) :
             (i < j /\ heap_log[i].ptr # 0 /\ heap_log[j].ptr # 0) =>
                 \/ heap_log[i].ptr + heap_log[i].size <= heap_log[j].ptr
                 \/ heap_log[j].ptr + heap_log[j].size <= heap_log[i].ptr)

\* C30 witness: memory was handed out after the first init(), init() was
\* called again, and then memory was handed out once more
C30_Witness ==
    \E i, j \in 1..Len(heap_log) :
        /\ i < j
        /\ heap_log[i].ptr # 0 /\ heap_log[i].size > 0
        /\ heap_log[j].ptr # 0 /\ heap_log[j].size > 0
        /\ heap_log[i].inits >= 1
        /\ heap_log[j].inits > heap_log[i].inits
        /\ heap_log[j].ptr >= heap_log[i].ptr + heap_log[i].size

-----------------------------------------------------------------------------
(* Boot information: memory/bootinfo.rs *)

BOOT_INFO_MAGIC == 1397707333

\* core::mem::size_of::<MemoryMapEntry>(): u64, u64, u32, u32
SIZE_OF_MEMORY_MAP_ENTRY == 24

\* where the boot loader leaves the record and the memory map
BootInfoAddr == 20480
MemoryMapAddr == 20512

\* the memory map in memory at MemoryMapAddr
MemoryMapInMemory ==
    <<[base |-> 0, length |-> 654336, entry_type |-> 1, acpi_extended_attributes |-> 0],
      [base |-> 1048576, length |-> 2097152, entry_type |-> 1,
       acpi_extended_attributes |-> 0],
      [base |-> 983040, length |-> 65536, entry_type |-> 2,
       acpi_extended_attributes |-> 1]>>

\* slice::from_raw_parts(map_ptr, count).  A null map_ptr breaks the
\* function's safety contract even for count = 0: a build that asserts
\* unsafe preconditions panics there, another build yields the empty slice.
from_raw_parts(map_ptr, count, checks) ==
    IF map_ptr = 0
    THEN IF checks THEN [panicked |-> TRUE, slice |-> <<>>]
         ELSE [panicked |-> FALSE, slice |-> <<>>]
    ELSE [panicked |-> FALSE, slice |-> SubSeq(MemoryMapInMemory, 1, count)]

\* BootInfoView::from_ptr(ptr) with raw the record at ptr
BootInfoView_from_ptr(ptr, raw, checks) ==
    IF ptr = 0 THEN [NoView EXCEPT !.called = TRUE]
    ELSE IF raw.magic # BOOT_INFO_MAGIC THEN [NoView EXCEPT !.called = TRUE]
    ELSE IF raw.version # 1 THEN [NoView EXCEPT !.called = TRUE]
    ELSE IF raw.memory_map_entry_size # SIZE_OF_MEMORY_MAP_ENTRY
    THEN [NoView EXCEPT !.called = TRUE]
    ELSE IF raw.memory_map_ptr = 0 /\ raw.memory_map_entries # 0
    THEN [NoView EXCEPT !.called = TRUE]
    ELSE LET r == from_raw_parts(raw.memory_map_ptr, raw.memory_map_entries, checks)
         IN  [called |-> TRUE, some |-> ~r.panicked, entries |-> r.slice,
              panicked |-> r.panicked]

\* ---- inputs ----
MaxEntries == 2

BootInfoRaws ==
    [magic : {BOOT_INFO_MAGIC, 0, BOOT_INFO_MAGIC + 1},
     version : {0, 1, 2},
     memory_map_entries : 0..MaxEntries,
     memory_map_entry_size : {SIZE_OF_MEMORY_MAP_ENTRY, 20, 0},
     memory_map_ptr : {0, MemoryMapAddr},
     reserved : {0}]

InitBoot ==
    /\ BOOT_INFO_PTR = 0
    /\ boot_raw \in BootInfoRaws
    /\ ub_checks \in BOOLEAN
    /\ boot_log = [registered |-> FALSE, raw |-> boot_raw, loaded |-> 0, known |-> FALSE]
    /\ boot_out = NoView
    /\ BootAlone

\* set_boot_info(ptr)
set_boot_info(ptr) ==
    /\ ~boot_out.panicked
    /\ BOOT_INFO_PTR' = ptr
    /\ boot_log' = [boot_log EXCEPT !.registered = TRUE]
    /\ UNCHANGED <<boot_raw, ub_checks, boot_out>>
    /\ UNCHANGED exceptBoot

\* boot_info()
boot_info ==
    /\ ~boot_out.panicked
    /\ boot_out' = BootInfoView_from_ptr(BOOT_INFO_PTR, boot_raw, ub_checks)
    /\ boot_log' = [boot_log EXCEPT !.loaded = BOOT_INFO_PTR, !.known = boot_log.registered]
    /\ UNCHANGED <<BOOT_INFO_PTR, boot_raw, ub_checks>>
    /\ UNCHANGED exceptBoot

NextBoot ==
    \/ \E ptr \in {0, BootInfoAddr} : set_boot_info(ptr)
    \/ boot_info

SpecBoot == InitBoot /\ [][NextBoot]_vars

-----------------------------------------------------------------------------
(* Boot information: properties *)

\* what the claim asks of the record
ValidRaw(raw) ==
    /\ raw.magic = 1397707333
    /\ raw.version = 1
    /\ raw.memory_map_entry_size = 24
    /\ raw.memory_map_entries = 0 \/ raw.memory_map_ptr # 0

\* C24: boot_info() returns a view exactly when a pointer was registered, it
\* is not null, and the record has the magic, version 1, the entry size 24
\* and a map pointer that is not null unless the count is 0; the view holds
\* the first entry_count entries of the map in order; the record is left as
\* it was.
C24_BootInfoValidation ==
    /\ boot_raw = boot_log.raw
    /\ boot_out.called =>
          /\ boot_out.some <=>
                 (boot_log.known /\ boot_log.loaded # 0 /\ ValidRaw(boot_raw))
          /\ boot_out.some =>
                 /\ Len(boot_out.entries) = boot_raw.memory_map_entries
                 /\ \A k \in 1..Len(boot_out.entries) :
                        boot_out.entries[k] = MemoryMapInMemory[k]

\* the same for records whose map pointer is not null
BootInfoValidationOfMappedRecords ==
    boot_raw.memory_map_ptr # 0 => C24_BootInfoValidation

-----------------------------------------------------------------------------
(* The process-wide frame allocator: memory/frame_allocator.rs:104-153 *)

\* count_usable_frames(entries, min_addr), from entry i on: the count, and
\* whether an addition of align_up overflowed on the way (the count is then
\* what a build without overflow checks computes)
RECURSIVE count_from(_, _, _)
count_from(entries, min, i) ==
    IF i > Len(entries) THEN [count |-> 0, panic |-> FALSE]
    ELSE LET region == entries[i]
             rest   == count_from(entries, min, i + 1)
             lo     == Max(region.base, min)
             hi     == saturating_add(region.base, region.length)
             start  == align_up(lo, FRAME_SIZE)
             end    == align_up(hi, FRAME_SIZE)
         IN  IF region.entry_type # 1 \/ region.length = 0
             THEN rest
             ELSE [count |-> rest.count
                               + (IF start < end THEN (end - start) \div FRAME_SIZE ELSE 0),
                   panic |-> \/ rest.panic
                             \/ overflows(lo, FRAME_SIZE - 1)
                             \/ overflows(hi, FRAME_SIZE - 1)]

count_usable_frames(entries, min) == count_from(entries, min, 1)

\* the memory maps the boot loader hands to init_from_memory_map
GlobalMemoryMaps ==
    {<<[base |-> MIN_ALLOCATABLE_ADDR, length |-> 2 * FRAME_SIZE, entry_type |-> 1]>>,
     <<[base |-> MIN_ALLOCATABLE_ADDR, length |-> FRAME_SIZE, entry_type |-> 1],
       [base |-> MIN_ALLOCATABLE_ADDR + 2 * FRAME_SIZE, length |-> FRAME_SIZE,
        entry_type |-> 1]>>}

\* Before init_from_memory_map (FRAME_ALLOCATOR is None), or right after it:
\* FrameAllocator::new(entries, MIN_ALLOCATABLE_ADDR), ALLOCATED_FRAMES = 0,
\* FRAME_ALLOCATOR_READY = true.  Interrupts are set up.
InitFrameIrq ==
    /\ FRAME_ALLOCATOR_READY \in BOOLEAN
    /\ min_addr = MIN_ALLOCATABLE_ADDR
    /\ overflow_checks \in BOOLEAN
    /\ IF FRAME_ALLOCATOR_READY
       THEN /\ regions \in GlobalMemoryMaps
            /\ LET st == select_next_region(0)
               IN  /\ region_index = st.region_index
                   /\ next_addr = st.next_addr
                   /\ region_end = st.region_end
       ELSE /\ regions = <<>>
            /\ region_index = 0
            /\ next_addr = 0
            /\ region_end = 0
    /\ panicked = FALSE
    /\ frames = <<>>
    /\ frame_src = <<>>
    /\ last_frame = NoFrame
    /\ n_allocs = 0
    /\ ALLOCATED_FRAMES = 0
    /\ TOTAL_FRAMES = IF FRAME_ALLOCATOR_READY
                      THEN count_usable_frames(regions, MIN_ALLOCATABLE_ADDR).count
                      ELSE 0
    /\ stats_out = None
    /\ af_pc = "idle"
    /\ af = NoAlloc
    /\ interrupt_flag \in BOOLEAN
    /\ cpu_hung = FALSE
    /\ idt = InstalledGates
    /\ TICKS = 0
    /\ port_log = <<>>
    /\ last_vector = [raised |-> -1, dispatched |-> -1]
    /\ n_irqs = 0
    /\ trk_pc = "idle"
    /\ trk = NoRead
    /\ kbd = KeyboardState_new
    /\ accepted = <<>>
    /\ delivered = <<>>
    /\ last_feed = <<>>
    /\ n_feeds = 0
    /\ n_events = 0
    /\ HeapIdle
    /\ CacheIdle
    /\ CrateIdle
    /\ RunIdle
    /\ AtaIdle
    /\ BootIdle
    /\ MainIdle

\* alloc_frame: the load of FRAME_ALLOCATOR_READY, and the return of None
\* when it is not set
af_check ==
    /\ ~cpu_hung /\ ~panicked
    /\ af_pc = "idle"
    /\ n_allocs < MaxAllocs
    /\ IF FRAME_ALLOCATOR_READY
       THEN /\ af_pc' = "alloc"
            /\ af' = [af EXCEPT !.entry_if = interrupt_flag, !.frame = NoFrame]
       ELSE /\ af_pc' = "idle"
            /\ af' = [af EXCEPT !.entry_if = interrupt_flag, !.frame = NoFrame,
                                !.returns = @ + 1]
    /\ n_allocs' = n_allocs + 1
    /\ UNCHANGED <<FRAME_ALLOCATOR_READY, ALLOCATED_FRAMES, TOTAL_FRAMES, stats_out>>
    /\ UNCHANGED <<regions, min_addr, region_index, next_addr, region_end,
                   overflow_checks, panicked, frames, frame_src, last_frame>>
    /\ UNCHANGED <<heapVars, kbdVars, cacheVars, archExceptGalloc>>

\* alloc_frame: allocator.as_mut().and_then(FrameAllocator::alloc)
af_alloc ==
    /\ ~cpu_hung /\ ~panicked
    /\ af_pc = "alloc"
    /\ LET r == alloc_loop([region_index |-> region_index,
                            next_addr |-> next_addr,
                            region_end |-> region_end])
       IN  /\ region_index' = r.st.region_index
           /\ next_addr' = r.st.next_addr
           /\ region_end' = r.st.region_end
           /\ panicked' = r.panic
           /\ last_frame' = r.frame
           /\ frames' = IF r.frame.some THEN Append(frames, r.frame.start) ELSE frames
           /\ frame_src' = IF r.frame.some
                           THEN Append(frame_src, r.st.region_index)
                           ELSE frame_src
           /\ af' = [af EXCEPT !.frame = r.frame]
    /\ af_pc' = "count"
    /\ UNCHANGED <<FRAME_ALLOCATOR_READY, ALLOCATED_FRAMES, TOTAL_FRAMES, stats_out>>
    /\ UNCHANGED <<regions, min_addr, overflow_checks, n_allocs>>
    /\ UNCHANGED <<heapVars, kbdVars, cacheVars, archExceptGalloc>>

\* alloc_frame: ALLOCATED_FRAMES.fetch_add(1) when a frame was found, and
\* the return
af_count ==
    /\ ~cpu_hung /\ ~panicked
    /\ af_pc = "count"
    /\ ALLOCATED_FRAMES' = IF af.frame.some THEN ALLOCATED_FRAMES + 1
                           ELSE ALLOCATED_FRAMES
    /\ af' = [af EXCEPT !.returns = @ + 1,
                        !.handed_out = IF af.frame.some
                                       THEN Append(@, af.frame.start) ELSE @]
    /\ af_pc' = "idle"
    /\ UNCHANGED <<FRAME_ALLOCATOR_READY, TOTAL_FRAMES, stats_out>>
    /\ UNCHANGED <<frameVars, heapVars, kbdVars, cacheVars, archExceptGalloc>>

NextFrameIrq ==
    \/ af_check
    \/ af_alloc
    \/ af_count
    \/ raise(IRQ_TIMER, 0)
    \/ \E scancode \in RingScancodes : raise(IRQ_KEYBOARD, scancode)

SpecFrameIrq == InitFrameIrq /\ [][NextFrameIrq]_vars

-----------------------------------------------------------------------------
(* The process-wide frame allocator: properties *)

\* an interrupt handler ran in this step
HandlerRan == n_irqs' > n_irqs /\ last_vector'.raised \in {32, 33}

\* C25: alloc_frame() updates the cursor and the counter with interrupts
\* disabled and leaves the interrupt flag as it found it, so no interrupt
\* handler runs between the two updates, where the cursor has moved and
\* allocated_frames does not count the frame yet.
C25_AllocFrameMasksInterrupts ==
    /\ [](af_pc \in {"alloc", "count"} => ~interrupt_flag)
    /\ [](af_pc = "idle" /\ af.returns > 0 /\ ~cpu_hung => interrupt_flag = af.entry_if)
    /\ [][HandlerRan => (af_pc = "idle" /\ ALLOCATED_FRAMES = Len(frames))]_vars

\* what holds without the masking: the flag is left alone, no frame is
\* handed out twice, and between calls the counter is the number of frames
\* handed out
AllocFrameBetweenCalls ==
    /\ af_pc = "idle" /\ af.returns > 0 /\ ~cpu_hung => interrupt_flag = af.entry_if
    /\ \A i, j \in 1..Len(frames) : i # j => frames[i] # frames[j]
    /\ af_pc = "idle" => ALLOCATED_FRAMES = Len(frames) /\ af.handed_out = frames

-----------------------------------------------------------------------------
(* Sector cache: buffer check, residency and transparency *)

\* C33: a cache read_sector call whose buffer is not 512 bytes long returns
\* InvalidBufferSize and changes nothing: the tick counter, hits, misses and
\* every cache line are unchanged and the inner device is not called.
C33_WrongBufferChangesNothing ==
    [][(ReadStep /\ last_read'[1].len # 512)
       => /\ last_read'[1].result = "InvalidBufferSize"
          /\ ticks' = ticks
          /\ hits' = hits
          /\ misses' = misses
          /\ lines' = lines
          /\ inner_calls' = inner_calls
          /\ inner_faults' = inner_faults]_vars

\* C33 witness: a short buffer was refused by a cache that already holds a
\* valid line and has counted a hit and a miss
C33_Witness ==
    /\ last_read # <<>>
    /\ last_read[1].len # 512
    /\ last_read[1].result = "InvalidBufferSize"
    /\ \E i \in 1..Len(lines) : lines[i].valid
    /\ hits = 1
    /\ misses = 1
    /\ ticks = 3

\* every 512-byte call so far succeeded on the inner device or hit
AllReadsSucceeded == \A i \in 1..Len(read_log) : read_log[i].ok

\* the position in read_log of the latest read of lba, 0 if it was never read
LastAccess(lba) ==
    LET at == {i \in 1..Len(read_log) : read_log[i].lba = lba}
    IN  IF at = {} THEN 0 ELSE CHOOSE i \in at : \A j \in at : j <= i

\* the sectors among the c most recently read distinct sectors
RecentDistinct(c) ==
    {lba \in 0..MaxLba :
        /\ LastAccess(lba) > 0
        /\ Cardinality({other \in 0..MaxLba : LastAccess(other) > LastAccess(lba)}) < c}

\* C34: over a device whose reads succeed, a read of a sector that is among
\* the c most recently read distinct sectors (c the number of lines) is a
\* hit, and a miss that finds every line valid evicts the line whose sector
\* was accessed longest ago.
C34_LruResidency ==
    [][(/\ ReadStep
        /\ last_read'[1].len = SECTOR_SIZE
        /\ AllReadsSucceeded')
       => LET call == read_log'[Len(read_log')]
          IN  /\ call.lba \in RecentDistinct(Len(lines))
                    => /\ call.hit # 0
                       /\ hits' = hits + 1
                       /\ inner_calls' = inner_calls
                       /\ last_read'[1].result = "Ok"
              /\ (call.hit = 0 /\ \A j \in 1..Len(lines) : lines[j].valid)
                    => \A j \in 1..Len(lines) :
                           LastAccess(lines[call.victim].lba)
                               <= LastAccess(lines[j].lba)]_vars

\* C34 witness: capacity 2, sectors 0, 1, 0, 2 read in this order: the read
\* of 2 found both lines valid and evicted sector 1, the older access,
\* although sector 0 was loaded first
C34_Witness ==
    /\ cache_capacity = 2
    /\ Len(read_log) = 4
    /\ AllReadsSucceeded
    /\ [i \in 1..4 |-> read_log[i].lba] = <<0, 1, 0, 2>>
    /\ read_log[3].hit # 0
    /\ read_log[4].evicted
    /\ find_line(lines, 0) # 0
    /\ find_line(lines, 2) # 0
    /\ find_line(lines, 1) = 0

\* C37: over an inner device with fixed contents, after any sequence of
\* reads, failing and partly written ones included, every successful
\* read_sector(lba) through the cache returns the bytes the inner device
\* holds for lba, and no two valid lines hold the same lba.
C37_CacheTransparency ==
    /\ (last_read # <<>> /\ last_read[1].result = "Ok" /\ last_read[1].len = SECTOR_SIZE)
          => last_read[1].out = DeviceData(last_read[1].lba)
    /\ \A i, j \in 1..Len(lines) :
          (i # j /\ lines[i].valid /\ lines[j].valid) => lines[i].lba # lines[j].lba

\* no failed read on the inner device has written into the buffer it was given
NoTornRead == \A i \in 1..Len(lines) : lines[i].data # TornData

\* the part of C37 that holds: valid lines hold pairwise distinct sectors, and
\* a successful read returns the device's bytes as long as every failed
\* inner read left its buffer untouched
TransparencyWithoutTornReads ==
    /\ NoTornRead =>
          ((last_read # <<>> /\ last_read[1].result = "Ok"
                /\ last_read[1].len = SECTOR_SIZE)
              => last_read[1].out = DeviceData(last_read[1].lba))
    /\ \A i, j \in 1..Len(lines) :
          (i # j /\ lines[i].valid /\ lines[j].valid) => lines[i].lba # lines[j].lba

-----------------------------------------------------------------------------
(* Shell main loop: the selected history entry *)

\* C38: whenever the loop of run() holds a selected history index i, then
\* i < history.len() and the line equals history[i]; a step that changes
\* the history leaves no index selected.
C38_SelectedEntryIsTheLine ==
    /\ []((~shell_hung /\ history_index.some) =>
             /\ history_index.val < Len(history)
             /\ Line = history[history_index.val + 1])
    /\ [][(history' # history /\ ~shell_hung') => history_index' = None]_vars

\* C38 witness: after a line was evicted from a full history, the newest
\* line is selected again and loaded
C38_Witness ==
    /\ exec_out.evicted
    /\ Len(history) = MAX_HISTORY
    /\ history_index = Some(MAX_HISTORY - 1)
    /\ Line = history[MAX_HISTORY]
    /\ ~shell_hung

-----------------------------------------------------------------------------
(* Frame statistics: memory/frame_allocator.rs:124-198 *)

\* FrameStats
FrameStats(total, allocated) ==
    [total_frames |-> total, allocated_frames |-> allocated,
     free_frames |-> IF total >= allocated THEN total - allocated ELSE 0]

\* The boot loader has left a memory map; FRAME_ALLOCATOR is None and the
\* counters are zero.
InitStats ==
    /\ regions \in MemoryMaps
    /\ min_addr = MIN_ALLOCATABLE_ADDR
    /\ overflow_checks \in BOOLEAN
    /\ region_index = 0
    /\ next_addr = 0
    /\ region_end = 0
    /\ panicked = FALSE
    /\ frames = <<>>
    /\ frame_src = <<>>
    /\ last_frame = NoFrame
    /\ n_allocs = 0
    /\ GallocIdle
    /\ HeapIdle
    /\ KbdIdle
    /\ CacheIdle
    /\ GallocArchAlone

\* init_from_memory_map(entries), entries being the map the boot loader left
init_from_memory_map ==
    /\ ~FRAME_ALLOCATOR_READY
    /\ ~panicked
    /\ af_pc = "idle"
    /\ LET total == count_usable_frames(regions, MIN_ALLOCATABLE_ADDR)
           st    == select_next_region(0)
       IN  IF overflow_checks /\ total.panic
           THEN /\ panicked' = TRUE
                /\ UNCHANGED <<region_index, next_addr, region_end>>
                /\ UNCHANGED <<FRAME_ALLOCATOR_READY, ALLOCATED_FRAMES, TOTAL_FRAMES>>
           ELSE /\ region_index' = st.region_index
                /\ next_addr' = st.next_addr
                /\ region_end' = st.region_end
                /\ TOTAL_FRAMES' = total.count
                /\ ALLOCATED_FRAMES' = 0
                /\ FRAME_ALLOCATOR_READY' = TRUE
                /\ UNCHANGED panicked
    /\ UNCHANGED <<regions, min_addr, overflow_checks, frames, frame_src, last_frame,
                   n_allocs, af_pc, af, stats_out>>
    /\ UNCHANGED <<heapVars, kbdVars, cacheVars, archExceptGalloc>>

\* stats()
stats ==
    /\ ~panicked
    /\ af_pc = "idle"
    /\ stats_out' = IF FRAME_ALLOCATOR_READY
                    THEN Some(FrameStats(TOTAL_FRAMES, ALLOCATED_FRAMES))
                    ELSE None
    /\ UNCHANGED <<FRAME_ALLOCATOR_READY, ALLOCATED_FRAMES, TOTAL_FRAMES, af_pc, af>>
    /\ UNCHANGED <<frameVars, heapVars, kbdVars, cacheVars, archExceptGalloc>>

NextStats ==
    \/ init_from_memory_map
    \/ af_check
    \/ af_alloc
    \/ af_count
    \/ stats

SpecStats == InitStats /\ [][NextStats]_vars

-----------------------------------------------------------------------------
(* Frame statistics: properties *)

\* the allocator is set up and the mainline is between two calls
BetweenAllocs == FRAME_ALLOCATOR_READY /\ af_pc = "idle" /\ ~panicked

\* the next alloc() returns nothing
Exhausted ==
    LET r == alloc_loop([region_index |-> region_index, next_addr |-> next_addr,
                         region_end |-> region_end])
    IN  ~r.frame.some /\ ~r.panic

\* C36: total_frames, as count_usable_frames computes it, is the number of
\* frames alloc hands out before it returns nothing: allocated_frames never
\* exceeds total_frames, and free_frames = total_frames - allocated_frames
\* is 0 exactly when the allocator is exhausted, also for usable regions
\* whose end is not 4096-aligned.
C36_StatsMatchAllocator ==
    /\ BetweenAllocs =>
          /\ ALLOCATED_FRAMES = Len(frames)
          /\ ALLOCATED_FRAMES <= TOTAL_FRAMES
          /\ (TOTAL_FRAMES - ALLOCATED_FRAMES = 0) <=> Exhausted
    /\ stats_out.some =>
          stats_out.val.free_frames
              = stats_out.val.total_frames - stats_out.val.allocated_frames

\* every usable region ends on a frame boundary below the top of the
\* address space
AlignedEnds ==
    \A k \in 1..Len(regions) :
        Usable(regions[k]) =>
            /\ (regions[k].base + regions[k].length) % FRAME_SIZE = 0
            /\ regions[k].base + regions[k].length < U64_MAX

\* the statistics agree with the allocator for maps whose usable regions
\* end on a frame boundary
StatsMatchForAlignedEnds == AlignedEnds => C36_StatsMatchAllocator

-----------------------------------------------------------------------------
(* Path resolution over a mounted SimpleFs: fs/vfs.rs:84-97 *)

\* the UTF-8 byte of a character of the paths used here
AsciiOf(c) ==
    CASE c = "/" -> 47
      [] c = "." -> 46
      [] c = "a" -> 97
      [] c = "c" -> 99
      [] c = "e" -> 101
      [] c = "h" -> 104
      [] c = "l" -> 108
      [] c = "o" -> 111
      [] c = "s" -> 115
      [] c = "t" -> 116
      [] c = "x" -> 120

\* `part` as the bytes lookup compares with an entry's name
as_bytes(part) == [k \in 1..Len(part) |-> AsciiOf(part[k])]

\* mutant: the current node's type is not checked before the lookup
RECURSIVE SimpleFs_resolve_loop_unchecked(_, _, _, _, _)
SimpleFs_resolve_loop_unchecked(v, parts, i, current, calls) ==
    IF i > Len(parts) THEN [res |-> Ok(current), calls |-> calls]
    ELSE LET meta == SimpleFs_metadata(v, current)
             c1 == Append(calls, <<"metadata", current, <<>>>>)
             next == SimpleFs_lookup(v, current, as_bytes(parts[i]))
             c2 == Append(c1, <<"lookup", current, as_bytes(parts[i])>>)
         IN  IF ~meta.ok THEN [res |-> meta, calls |-> c1]
             ELSE IF ~next.ok THEN [res |-> next, calls |-> c2]
             ELSE SimpleFs_resolve_loop_unchecked(v, parts, i + 1, next.val, c2)

\* resolve_path, lines 88-96, over the mounted file system v: the result and
\* the FileSystem calls made
RECURSIVE SimpleFs_resolve_loop(_, _, _, _, _)
SimpleFs_resolve_loop(v, parts, i, current, calls) ==
    IF i > Len(parts) THEN [res |-> Ok(current), calls |-> calls]
    ELSE LET meta == SimpleFs_metadata(v, current)
             c1 == Append(calls, <<"metadata", current, <<>>>>)
             next == SimpleFs_lookup(v, current, as_bytes(parts[i]))
             c2 == Append(c1, <<"lookup", current, as_bytes(parts[i])>>)
         IN  IF ~meta.ok THEN [res |-> meta, calls |-> c1]
             ELSE IF meta.val.node_type # "Directory"
                  THEN [res |-> Err("NotDirectory"), calls |-> c1]
             ELSE IF ~next.ok THEN [res |-> next, calls |-> c2]
             ELSE SimpleFs_resolve_loop(v, parts, i + 1, next.val, c2)

\* resolve_path(fs, path); SimpleFs::root() is NodeId(0)
SimpleFs_resolve_path(v, path) ==
    LET parts == split_path_of(path)
    IN  IF ~parts.ok THEN [res |-> parts, calls |-> <<>>]
        ELSE SimpleFs_resolve_loop(v, parts.val, 1, 0, <<>>)

\* ---- inputs ----
Seg_hello == <<"h", "e", "l", "l", "o", ".", "t", "x", "t">>

\* "/hello.txt", "/hello.txt/", "/hello.txt/a", "/hello.txt/x/a", "hello.txt",
\* "//hello.txt", "/x", "/x/hello.txt", "/hello.txt/.."
FsPaths ==
    StringsUpTo(MaxPathLen)
    \cup {<<"/">> \o Seg_hello,
          <<"/">> \o Seg_hello \o <<"/">>,
          <<"/">> \o Seg_hello \o <<"/", "a">>,
          <<"/">> \o Seg_hello \o <<"/", "x", "/", "a">>,
          Seg_hello,
          <<"/", "/">> \o Seg_hello,
          <<"/", "x">>,
          <<"/", "x", "/">> \o Seg_hello,
          <<"/">> \o Seg_hello \o <<"/", ".", ".">>}

\* resolve_path(&fs, path) on the mounted file system
resolve(path) ==
    /\ fs.ok
    /\ fs_op.op = "none"
    /\ LET r == SimpleFs_resolve_path(fs.val, path)
       IN  fs_op' = [NoOp EXCEPT !.op = "resolve", !.path = path,
                                 !.result = r.res, !.calls = r.calls]
    /\ UNCHANGED <<disk, faulty, fs, built_from>>
    /\ UNCHANGED exceptFs

NextVfs ==
    \/ mount
    \/ \E path \in FsPaths : resolve(path)

SpecVfs == InitFs /\ [][NextVfs]_vars

-----------------------------------------------------------------------------
(* Path resolution over a mounted SimpleFs: properties *)

\* the segments of the resolved path, as bytes
ResolvedParts ==
    LET parts == split_path_of(fs_op.path).val
    IN  [k \in 1..Len(parts) |-> as_bytes(parts[k])]

\* a live entry of the mounted file system is named name
FileNamed(name) ==
    \E i \in 1..Len(fs.val.entries) : NameEquals(fs.val.entries[i], name)

\* C35: resolve_path starts at the root and asks for the metadata of the
\* current node before each lookup, returning NotDirectory when it is no
\* directory.  Over a mounted SimpleFs: a path whose first segment names an
\* existing file and that has a further segment fails with NotDirectory; a
\* one-segment path to a missing name fails with NotFound; a one-segment
\* path to an existing file, with or without a trailing slash, returns the
\* NodeId of that file.
C35_ResolveOverSimpleFs ==
    (fs_op.op = "resolve" /\ split_path_of(fs_op.path).ok) =>
        LET calls == fs_op.calls
            parts == ResolvedParts
        IN  /\ calls # <<>> => calls[1] = <<"metadata", 0, <<>>>>
            /\ \A k \in 1..Len(calls) :
                  calls[k][1] = "lookup" =>
                      /\ k > 1
                      /\ calls[k - 1] = <<"metadata", calls[k][2], <<>>>>
                      /\ calls[k][2] = 0
            /\ (calls # <<>> /\ calls[Len(calls)][1] = "metadata") =>
                  /\ calls[Len(calls)][2] # 0
                  /\ IsErr(fs_op.result, "NotDirectory")
            /\ (Len(parts) >= 2 /\ FileNamed(parts[1])) =>
                  IsErr(fs_op.result, "NotDirectory")
            /\ (Len(parts) = 1 /\ ~FileNamed(parts[1])) =>
                  IsErr(fs_op.result, "NotFound")
            /\ (Len(parts) = 1 /\ FileNamed(parts[1])) =>
                  /\ fs_op.result.ok
                  /\ fs_op.result.val \in 1..Len(fs.val.entries)
                  /\ NameEquals(fs.val.entries[fs_op.result.val], parts[1])

\* C35 witness: "/hello.txt/a" was resolved on a file system that holds
\* hello.txt and a: the walk stopped at the metadata of hello.txt
C35_Witness ==
    /\ fs_op.op = "resolve"
    /\ fs_op.path = <<"/">> \o Seg_hello \o <<"/", "a">>
    /\ FileNamed(Name_hello)
    /\ FileNamed(Name_a)
    /\ IsErr(fs_op.result, "NotDirectory")
    /\ Len(fs_op.calls) = 3

-----------------------------------------------------------------------------
(* SimpleFs: the sectors a read asks for *)

\* C40: read(node, offset, out) on a mounted SimpleFs asks the device only
\* for sectors lba with file_start_block <= lba < file_start_block +
\* file_block_count of the node's entry, hence never for the superblock, a
\* directory block, a block of another file or a block at or past
\* total_blocks, and for no sector at all when offset >= file_size or out is
\* empty.
C40_ReadStaysInsideFile ==
    (fs_op.op = "read" /\ fs_op.node \in 1..Len(fs.val.entries)) =>
        LET e == fs.val.entries[fs_op.node]
            sb == fs.val.superblock
        IN  /\ \A k \in 1..Len(fs_op.lbas) :
                  /\ e.file_start_block <= fs_op.lbas[k]
                  /\ fs_op.lbas[k] < e.file_start_block + e.file_block_count
                  /\ fs_op.lbas[k] >= sb.data_start_block
                  /\ fs_op.lbas[k] < sb.total_blocks
                  /\ \A j \in 1..Len(fs.val.entries) :
                        j # fs_op.node => fs_op.lbas[k] \notin FileBlocks(fs.val.entries[j])
            /\ (fs_op.offset >= e.file_size \/ fs_op.len = 0) => fs_op.lbas = <<>>

\* the node's entry lies in the data area, inside the disk, is as long as
\* its blocks at most, and shares no block with another entry
EntryWellFormed(n) ==
    LET e == fs.val.entries[n]
        sb == fs.val.superblock
    IN  /\ e.file_start_block >= sb.data_start_block
        /\ e.file_start_block + e.file_block_count <= sb.total_blocks
        /\ e.file_size <= e.file_block_count * BLOCK_SIZE
        /\ \A j \in 1..Len(fs.val.entries) :
              j # n => FileBlocks(e) \cap FileBlocks(fs.val.entries[j]) = {}

\* the same for entries that are well formed, which mount does not check
ReadStaysInsideWellFormedFile ==
    (fs_op.op = "read" /\ fs_op.node \in 1..Len(fs.val.entries)
        /\ EntryWellFormed(fs_op.node))
    => C40_ReadStaysInsideFile

-----------------------------------------------------------------------------
(* The mainline as a producer: lib.rs:64-102, keyboard.rs:49-147 *)

\* try_read_key between save_and_disable_interrupts and restore_interrupts:
\* the state left behind and the Option returned
try_read_key_of(st) ==
    IF st.head = st.tail THEN [st |-> st, key |-> NoKey]
    ELSE [st |-> [st EXCEPT !.tail = (st.tail + 1) % BUFFER_SIZE],
          key |-> decode_event(st.buffer[st.tail])]

\* try_read_char: the Option<u8> made of the key, -1 for None
try_read_char_of(k) ==
    CASE k.kind = "Char" -> k.ch
      [] k.kind = "Enter" -> 10
      [] k.kind = "Backspace" -> 8
      [] OTHER -> -1

\* keyboard_smoke_test: the scancodes injected first and the bytes expected
SmokeInjects == <<35, 18, 38, 38, 24>>
SmokeExpected == <<104, 101, 108, 108, 111>>

\* the mainline executes instructions
Running == ~cpu_hung /\ ~halted

\* clear_buffer(), at the start and at the end of keyboard_smoke_test; the
\* interrupt flag is saved and restored around the two stores
smoke_clear_buffer ==
    /\ Running
    /\ km_pc \in {"smoke_clear", "smoke_clear2"}
    /\ kbd' = [kbd EXCEPT !.head = 0, !.tail = 0]
    /\ accepted' = <<>>
    /\ delivered' = <<>>
    /\ IF km_pc = "smoke_clear"
       THEN /\ km_pc' = "smoke_inject"
            /\ smoke' = [k |-> 1, ok |-> TRUE]
            /\ UNCHANGED km_trace
       ELSE /\ km_pc' = "run"
            /\ km_trace' = Append(km_trace, IF smoke.ok THEN "keyboard decode OK"
                                            ELSE "keyboard decode FAILED")
            /\ UNCHANGED smoke
    /\ UNCHANGED <<km_arg, inj, halted, sh_key>>
    /\ UNCHANGED <<last_feed, n_feeds, n_events>>
    /\ UNCHANGED <<frameVars, heapVars, cacheVars, archExceptMain>>

\* the scancode the mainline is about to inject
InjectScancode ==
    CASE km_pc = "smoke_inject" -> SmokeInjects[smoke.k]
      [] km_pc = "smoke_inject_z" -> 21
      [] km_pc = "smoke_inject_y" -> 44

\* inject_scancode(scancode) -> feed_scancode: the reads of the decoder flags
\* and of head and tail.  Nothing masks interrupts here.
inject_begin ==
    /\ Running
    /\ km_pc \in {"smoke_inject", "smoke_inject_z", "smoke_inject_y"}
    /\ ~inj.active
    /\ inj' = [active |-> TRUE, scancode |-> InjectScancode, seen |-> kbd,
               overlapped |-> inj.overlapped]
    /\ UNCHANGED <<km_pc, km_arg, km_trace, smoke, halted, sh_key>>
    /\ UNCHANGED <<kernelVars, archExceptMain>>

\* feed_scancode on the mainline: the stores.  What is stored was computed
\* from the values read in inject_begin; the slot of line 145 is indexed by
\* state.head, which the build may read again or keep from line 140.
inject_commit ==
    /\ Running
    /\ inj.active
    /\ LET f == feed_scancode(inj.seen, inj.scancode)
           e0_written == inj.scancode = 224 \/ inj.seen.e0_prefix
           shift_written == /\ inj.scancode # 224
                            /\ ~inj.seen.e0_prefix
                            /\ inj.scancode \in {42, 54, 170, 182}
       IN  /\ \E slot \in {inj.seen.head, kbd.head} :
                kbd' = [kbd EXCEPT
                          !.e0_prefix = IF e0_written THEN f.st.e0_prefix ELSE @,
                          !.shift = IF shift_written THEN f.st.shift ELSE @,
                          !.buffer = IF f.stored
                                     THEN [@ EXCEPT ![slot] = encode_event(f.pushed)]
                                     ELSE @,
                          !.head = IF f.stored THEN f.st.head ELSE @]
           /\ accepted' = IF f.stored THEN Append(accepted, f.pushed) ELSE accepted
    /\ inj' = [inj EXCEPT !.active = FALSE, !.overlapped = @ \/ kbd # inj.seen]
    /\ IF km_pc = "smoke_inject"
       THEN IF smoke.k < Len(SmokeInjects)
            THEN /\ smoke' = [smoke EXCEPT !.k = @ + 1]
                 /\ UNCHANGED km_pc
            ELSE /\ smoke' = [smoke EXCEPT !.k = 1]
                 /\ km_pc' = "smoke_expect"
       ELSE /\ km_pc' = IF km_pc = "smoke_inject_z" THEN "smoke_read_z"
                        ELSE "smoke_read_y"
            /\ UNCHANGED smoke
    /\ UNCHANGED <<km_arg, km_trace, halted, sh_key>>
    /\ UNCHANGED <<delivered, last_feed, n_feeds, n_events>>
    /\ UNCHANGED <<frameVars, heapVars, cacheVars, archExceptMain>>

\* one try_read_char() of keyboard_smoke_test and the comparison made of it
smoke_read ==
    /\ Running
    /\ km_pc \in {"smoke_expect", "smoke_none", "smoke_read_z", "smoke_read_y"}
    /\ LET r == try_read_key_of(kbd)
           ch == try_read_char_of(r.key)
       IN  /\ kbd' = r.st
           /\ delivered' = IF r.key # NoKey THEN Append(delivered, r.key) ELSE delivered
           /\ CASE km_pc = "smoke_expect" ->
                     IF ch # SmokeExpected[smoke.k]
                     THEN /\ smoke' = [smoke EXCEPT !.ok = FALSE]
                          /\ km_pc' = "smoke_none"
                     ELSE IF smoke.k < Len(SmokeExpected)
                     THEN /\ smoke' = [smoke EXCEPT !.k = @ + 1]
                          /\ UNCHANGED km_pc
                     ELSE /\ km_pc' = "smoke_none"
                          /\ UNCHANGED smoke
                [] km_pc = "smoke_none" ->
                     /\ smoke' = [smoke EXCEPT !.ok = @ /\ ch = -1]
                     /\ km_pc' = "smoke_inject_z"
                [] km_pc = "smoke_read_z" ->
                     /\ smoke' = [smoke EXCEPT !.ok = @ /\ ch = 122]
                     /\ km_pc' = "smoke_inject_y"
                [] km_pc = "smoke_read_y" ->
                     /\ smoke' = [smoke EXCEPT !.ok = @ /\ ch = 121]
                     /\ km_pc' = "smoke_clear2"
    /\ UNCHANGED <<km_arg, km_trace, inj, halted, sh_key>>
    /\ UNCHANGED <<accepted, last_feed, n_feeds, n_events>>
    /\ UNCHANGED <<frameVars, heapVars, cacheVars, archExceptMain>>

\* kernel_main has enabled interrupts and enters keyboard_smoke_test
InitInject ==
    /\ km_pc = "smoke_clear"
    /\ km_arg = 0
    /\ km_trace = <<>>
    /\ smoke = [k |-> 0, ok |-> TRUE]
    /\ inj = NoInject
    /\ halted = FALSE
    /\ sh_key = NoKey
    /\ interrupt_flag = TRUE
    /\ cpu_hung = FALSE
    /\ idt = InstalledGates
    /\ TICKS = 0
    /\ port_log = <<>>
    /\ last_vector = [raised |-> -1, dispatched |-> -1]
    /\ n_irqs = 0
    /\ trk_pc = "idle"
    /\ trk = NoRead
    /\ kbd = KeyboardState_new
    /\ accepted = <<>>
    /\ delivered = <<>>
    /\ last_feed = <<>>
    /\ n_feeds = 0
    /\ n_events = 0
    /\ FrameIdle
    /\ HeapIdle
    /\ CacheIdle
    /\ CrateIdle
    /\ RunIdle
    /\ AtaIdle
    /\ BootIdle
    /\ GallocIdle

NextInject ==
    \/ smoke_clear_buffer
    \/ inject_begin
    \/ inject_commit
    \/ smoke_read
    \/ raise(IRQ_TIMER, 0)
    \/ \E scancode \in RingScancodes : raise(IRQ_KEYBOARD, scancode)

SpecInject == InitInject /\ [][NextInject]_vars

-----------------------------------------------------------------------------
(* The mainline as a producer: properties *)

\* the keyboard handler ran feed_scancode in this step
KeyboardHandlerRan == n_feeds' = n_feeds + 1

\* C39: while feed_scancode runs on the mainline (inject_scancode in the
\* keyboard smoke test, after interrupts are enabled), no keyboard IRQ runs
\* feed_scancode between its reads and its stores, and no event is lost or
\* overwritten: what was read plus what waits in the ring is what was stored.
C39_ProducersNeverInterleave ==
    /\ [][KeyboardHandlerRan => ~inj.active]_vars
    /\ [](~inj.active => (delivered \o RingContents = accepted))

\* what holds as long as no handler has run inside an injection
FifoWithoutOverlap ==
    (~inj.active /\ ~inj.overlapped) => (delivered \o RingContents = accepted)

-----------------------------------------------------------------------------
(* Boot: kernel_main, lib.rs:17-62 *)

\* what no step of kernel_main before the shell touches
bootSeqRest == <<cacheVars, crateVars, runVars, ataVars>>

\* panic!: the handler prints and calls hang(), which disables interrupts
\* and halts for ever
km_panic ==
    /\ cpu_hung' = TRUE
    /\ interrupt_flag' = FALSE
    /\ km_pc' = "panicked"

\* line 20: set_boot_info(boot_info_ptr)
km_set_boot_info ==
    /\ Running
    /\ km_pc = "entry"
    /\ BOOT_INFO_PTR' = km_arg
    /\ boot_log' = [boot_log EXCEPT !.registered = TRUE]
    /\ km_pc' = "boot_info"
    /\ km_trace' = Append(km_trace, "reached long mode")
    /\ UNCHANGED <<boot_raw, ub_checks, boot_out>>
    /\ UNCHANGED <<km_arg, smoke, inj, halted, sh_key>>
    /\ UNCHANGED <<frameVars, heapVars, kbdVars, irqVars, gallocVars, bootSeqRest>>

\* lines 21-39: `if let Some(info) = boot_info()` and the branch taken
km_boot_info ==
    /\ Running
    /\ km_pc = "boot_info"
    /\ LET view == BootInfoView_from_ptr(BOOT_INFO_PTR, boot_raw, ub_checks)
       IN  /\ boot_out' = view
           /\ boot_log' = [boot_log EXCEPT !.loaded = BOOT_INFO_PTR,
                                           !.known = boot_log.registered]
           /\ IF view.panicked
              THEN /\ km_panic
                   /\ UNCHANGED <<regions, km_trace>>
              ELSE /\ UNCHANGED <<cpu_hung, interrupt_flag>>
                   /\ IF ~view.some
                      THEN /\ km_trace' = Append(km_trace, "boot info invalid")
                           /\ km_pc' = "interrupts_init"
                           /\ UNCHANGED regions
                      ELSE IF view.entries = <<>>
                      THEN /\ km_trace' = Append(km_trace, "boot info map empty")
                           /\ km_pc' = "interrupts_init"
                           /\ UNCHANGED regions
                      ELSE /\ km_trace' = Append(km_trace, "boot info map OK")
                           /\ km_pc' = "frame_init"
                           /\ regions' = view.entries
    /\ UNCHANGED <<BOOT_INFO_PTR, boot_raw, ub_checks>>
    /\ UNCHANGED <<km_arg, smoke, inj, halted, sh_key>>
    /\ UNCHANGED <<min_addr, region_index, next_addr, region_end, overflow_checks,
                   panicked, frames, frame_src, last_frame, n_allocs>>
    /\ UNCHANGED <<idt, TICKS, port_log, last_vector, n_irqs, trk_pc, trk>>
    /\ UNCHANGED <<heapVars, kbdVars, gallocVars, bootSeqRest>>

\* line 26: init_from_memory_map(info.entries())
km_frame_init ==
    /\ Running
    /\ km_pc = "frame_init"
    /\ LET total == count_usable_frames(regions, MIN_ALLOCATABLE_ADDR)
           st    == select_next_region(0)
       IN  IF overflow_checks /\ total.panic
           THEN /\ panicked' = TRUE
                /\ km_panic
                /\ UNCHANGED <<region_index, next_addr, region_end>>
                /\ UNCHANGED <<FRAME_ALLOCATOR_READY, ALLOCATED_FRAMES, TOTAL_FRAMES>>
           ELSE /\ region_index' = st.region_index
                /\ next_addr' = st.next_addr
                /\ region_end' = st.region_end
                /\ TOTAL_FRAMES' = total.count
                /\ ALLOCATED_FRAMES' = 0
                /\ FRAME_ALLOCATOR_READY' = TRUE
                /\ km_pc' = "alloc_frame"
                /\ UNCHANGED <<panicked, cpu_hung, interrupt_flag>>
    /\ UNCHANGED <<regions, min_addr, overflow_checks, frames, frame_src, last_frame,
                   n_allocs, af_pc, af, stats_out>>
    /\ UNCHANGED <<km_arg, km_trace, smoke, inj, halted, sh_key>>
    /\ UNCHANGED <<idt, TICKS, port_log, last_vector, n_irqs, trk_pc, trk>>
    /\ UNCHANGED <<heapVars, kbdVars, bootVars, bootSeqRest>>

\* lines 27-31: alloc_frame(), called with interrupts disabled
km_alloc_frame ==
    /\ Running
    /\ km_pc = "alloc_frame"
    /\ LET r == alloc_loop([region_index |-> region_index,
                            next_addr |-> next_addr,
                            region_end |-> region_end])
       IN  /\ region_index' = r.st.region_index
           /\ next_addr' = r.st.next_addr
           /\ region_end' = r.st.region_end
           /\ panicked' = r.panic
           /\ last_frame' = r.frame
           /\ frames' = IF r.frame.some THEN Append(frames, r.frame.start) ELSE frames
           /\ frame_src' = IF r.frame.some
                           THEN Append(frame_src, r.st.region_index)
                           ELSE frame_src
           /\ af' = [af EXCEPT !.frame = r.frame, !.entry_if = interrupt_flag,
                               !.returns = IF r.panic THEN @ ELSE @ + 1,
                               !.handed_out = IF r.frame.some
                                              THEN Append(@, r.frame.start) ELSE @]
           /\ ALLOCATED_FRAMES' = IF r.frame.some THEN ALLOCATED_FRAMES + 1
                                  ELSE ALLOCATED_FRAMES
           /\ IF r.panic
              THEN /\ km_panic
                   /\ UNCHANGED km_trace
              ELSE /\ km_pc' = "heap_init"
                   /\ km_trace' = Append(km_trace, IF r.frame.some
                                                   THEN "frame allocator OK"
                                                   ELSE "frame allocator empty")
                   /\ UNCHANGED <<cpu_hung, interrupt_flag>>
    /\ n_allocs' = n_allocs + 1
    /\ UNCHANGED <<regions, min_addr, overflow_checks>>
    /\ UNCHANGED <<FRAME_ALLOCATOR_READY, af_pc, TOTAL_FRAMES, stats_out>>
    /\ UNCHANGED <<km_arg, smoke, inj, halted, sh_key>>
    /\ UNCHANGED <<idt, TICKS, port_log, last_vector, n_irqs, trk_pc, trk>>
    /\ UNCHANGED <<heapVars, kbdVars, bootVars, bootSeqRest>>

\* an allocation through the global allocator: KernelAllocator::alloc, and
\* the panic of handle_alloc_error when it returns null
km_alloc(layout, next_pc) ==
    LET r == BumpCursor_alloc(cursor, layout)
    IN  /\ cursor' = r.cursor
        /\ heap_log' = Append(heap_log,
                              [ptr |-> r.ptr, size |-> layout.size, align |-> layout.align,
                               inits |-> init_calls])
        /\ IF r.ptr = 0
           THEN km_panic
           ELSE /\ km_pc' = next_pc
                /\ UNCHANGED <<cpu_hung, interrupt_flag>>

\* line 32: heap::init()
km_heap_init ==
    /\ Running
    /\ km_pc = "heap_init"
    /\ init_calls' = init_calls + 1
    /\ IF HEAP_READY
       THEN UNCHANGED <<cursor, HEAP_READY>>
       ELSE /\ cursor' = BumpCursor_init(heap_space, HEAP_SIZE)
            /\ HEAP_READY' = TRUE
    /\ km_pc' = "heap_smoke"
    /\ UNCHANGED <<heap_space, heap_log>>
    /\ UNCHANGED <<km_arg, km_trace, smoke, inj, halted, sh_key>>
    /\ UNCHANGED <<frameVars, kbdVars, irqVars, bootVars, gallocVars, bootSeqRest>>

\* lines 33-36: heap_smoke_test() and the smoke tests of the block device,
\* of paging and of the file system.  Of these the model keeps the first
\* allocation of heap_smoke_test: the buffer of a Vec<u8> after push(1).
km_heap_smoke ==
    /\ Running
    /\ km_pc = "heap_smoke"
    /\ km_alloc([size |-> 8, align |-> 1], "interrupts_init")
    /\ km_trace' = Append(km_trace, "heap allocator OK")
    /\ UNCHANGED <<heap_space, HEAP_READY, init_calls>>
    /\ UNCHANGED <<km_arg, smoke, inj, halted, sh_key>>
    /\ UNCHANGED <<idt, TICKS, port_log, last_vector, n_irqs, trk_pc, trk>>
    /\ UNCHANGED <<frameVars, kbdVars, bootVars, gallocVars, bootSeqRest>>

\* line 41: interrupts::init(): disable_interrupts, the seven gates,
\* load_idt, pic::remap, pit::init, pic::set_masks
km_interrupts_init ==
    /\ Running
    /\ km_pc = "interrupts_init"
    /\ interrupt_flag' = FALSE
    /\ idt' = InstalledGates
    /\ km_trace' = km_trace \o <<"cli", "lidt", "pic remap", "pit init", "pic masks">>
    /\ km_pc' = "enable_interrupts"
    /\ UNCHANGED <<cpu_hung, TICKS, port_log, last_vector, n_irqs, trk_pc, trk>>
    /\ UNCHANGED <<km_arg, smoke, inj, halted, sh_key>>
    /\ UNCHANGED <<frameVars, heapVars, kbdVars, bootVars, gallocVars, bootSeqRest>>

\* line 42: enable_interrupts()
km_enable_interrupts ==
    /\ Running
    /\ km_pc = "enable_interrupts"
    /\ interrupt_flag' = TRUE
    /\ km_trace' = Append(km_trace, "sti")
    /\ km_pc' = "smoke_clear"
    /\ UNCHANGED <<cpu_hung, idt, TICKS, port_log, last_vector, n_irqs, trk_pc, trk>>
    /\ UNCHANGED <<km_arg, smoke, inj, halted, sh_key>>
    /\ UNCHANGED <<frameVars, heapVars, kbdVars, bootVars, gallocVars, bootSeqRest>>

\* the lines a user may have typed when Enter is pressed for the first time
FirstLineLens == 1..2

\* shell::run() up to the first heap allocation: a line of len bytes is in
\* line_buf, Enter is read, and execute_command (shell.rs:121-129) evaluates
\* line.to_vec().  The key reads before it are those of run (see key).
sh_first_alloc(len) ==
    /\ Running
    /\ km_pc = "run"
    /\ km_alloc([size |-> len, align |-> 1], "shell")
    /\ UNCHANGED <<heap_space, HEAP_READY, init_calls>>
    /\ UNCHANGED <<km_arg, km_trace, smoke, inj, halted, sh_key>>
    /\ UNCHANGED <<idt, TICKS, port_log, last_vector, n_irqs, trk_pc, trk>>
    /\ UNCHANGED <<frameVars, kbdVars, bootVars, gallocVars, bootSeqRest>>

\* the boot loader's records that pass or fail each check of from_ptr once
BootSeqRaws ==
    {r \in BootInfoRaws : /\ r.version = 1
                          /\ r.memory_map_entry_size = SIZE_OF_MEMORY_MAP_ENTRY
                          /\ r.memory_map_entries \in {0, MaxEntries}}

\* kernel_main is entered from the boot code with interrupts disabled, no
\* IDT loaded, and every static at its initial value
InitBootSeq ==
    /\ km_pc = "entry"
    /\ km_arg \in {0, BootInfoAddr}
    /\ km_trace = <<>>
    /\ smoke = [k |-> 0, ok |-> TRUE]
    /\ inj = NoInject
    /\ halted = FALSE
    /\ sh_key = NoKey
    /\ BOOT_INFO_PTR = 0
    /\ boot_raw \in BootSeqRaws
    /\ ub_checks \in BOOLEAN
    /\ boot_log = [registered |-> FALSE, raw |-> boot_raw, loaded |-> 0, known |-> FALSE]
    /\ boot_out = NoView
    /\ interrupt_flag = FALSE
    /\ cpu_hung = FALSE
    /\ idt = {}
    /\ TICKS = 0
    /\ port_log = <<>>
    /\ last_vector = [raised |-> -1, dispatched |-> -1]
    /\ n_irqs = 0
    /\ trk_pc = "idle"
    /\ trk = NoRead
    /\ kbd = KeyboardState_new
    /\ accepted = <<>>
    /\ delivered = <<>>
    /\ last_feed = <<>>
    /\ n_feeds = 0
    /\ n_events = 0
    /\ regions = <<>>
    /\ min_addr = MIN_ALLOCATABLE_ADDR
    /\ overflow_checks \in BOOLEAN
    /\ region_index = 0
    /\ next_addr = 0
    /\ region_end = 0
    /\ panicked = FALSE
    /\ frames = <<>>
    /\ frame_src = <<>>
    /\ last_frame = NoFrame
    /\ n_allocs = 0
    /\ GallocIdle
    /\ heap_space \in HeapSpaces
    /\ cursor = BumpCursor_new
    /\ HEAP_READY = FALSE
    /\ heap_log = <<>>
    /\ init_calls = 0
    /\ CacheIdle
    /\ CrateIdle
    /\ RunIdle
    /\ AtaIdle

NextBootSeq ==
    \/ km_set_boot_info
    \/ km_boot_info
    \/ km_frame_init
    \/ km_alloc_frame
    \/ km_heap_init
    \/ km_heap_smoke
    \/ km_interrupts_init
    \/ km_enable_interrupts
    \/ smoke_clear_buffer
    \/ inject_begin
    \/ inject_commit
    \/ smoke_read
    \/ \E len \in FirstLineLens : sh_first_alloc(len)
    \/ raise(IRQ_TIMER, 0)

SpecBootSeq == InitBootSeq /\ [][NextBootSeq]_vars

-----------------------------------------------------------------------------
(* Boot: properties *)

\* interrupts::init() has run to its end
InterruptsInitDone ==
    /\ idt = InstalledGates
    /\ \E i \in 1..Len(km_trace) : km_trace[i] = "pic masks"

\* the shell has made a heap allocation
ShellAllocated == km_pc = "shell" \/ (km_pc = "panicked" /\ \E i \in 1..Len(km_trace) : km_trace[i] = "sti")

\* C31: on every boot path that reaches the shell (boot info valid, boot
\* info invalid, memory map empty) the frame allocator and the kernel heap
\* are initialised before interrupts are enabled and before the shell's
\* first heap allocation, and interrupts are enabled only after
\* interrupts::init() loaded the IDT, remapped the PIC and set the masks.
C31_InitialisedBeforeInterruptsAndShell ==
    /\ interrupt_flag => (FRAME_ALLOCATOR_READY /\ HEAP_READY)
    /\ ShellAllocated => (FRAME_ALLOCATOR_READY /\ HEAP_READY)
    /\ interrupt_flag => InterruptsInitDone

\* the part that holds on every path: no interrupt before interrupts::init()
InterruptsOnlyAfterInit == interrupt_flag => InterruptsInitDone

\* the part that holds on the path of a valid record with a map that is
\* not empty
InitialisedOnTheValidPath ==
    (boot_out.some /\ boot_out.entries # <<>>)
        => /\ interrupt_flag => (FRAME_ALLOCATOR_READY /\ HEAP_READY)
           /\ ShellAllocated => (FRAME_ALLOCATOR_READY /\ HEAP_READY)

-----------------------------------------------------------------------------
(* The shell loop and the interrupts that wake it: shell.rs:52-114,
   x86_64.rs:22-30, interrupts.rs:120-145 *)

\* PIT ticks are counted in a wrapping counter of TickBits bits (64 in the
\* source)
TickBits == 1

\* mutant: only the keyboard interrupt ends hlt
wakes_on_keyboard_only(v) == v = IRQ_KEYBOARD

\* hlt stops the CPU "bis zum naechsten Interrupt": every interrupt taken
\* ends it
wakes(v) == TRUE

\* run(): `if let Some(key) = try_read_key()`, the read made with
\* interrupts disabled and the flag restored
loop_read ==
    /\ Running
    /\ ~shell_hung
    /\ km_pc = "loop_read"
    /\ LET r == try_read_key_of(kbd)
       IN  /\ kbd' = r.st
           /\ sh_key' = r.key
           /\ km_pc' = IF r.key = NoKey THEN "loop_halt" ELSE "loop_handle"
    /\ UNCHANGED <<km_arg, km_trace, smoke, inj, halted>>
    /\ UNCHANGED <<accepted, delivered, last_feed, n_feeds, n_events>>
    /\ UNCHANGED <<frameVars, heapVars, cacheVars, archExceptMain>>

\* run(): the match on the key read
loop_handle ==
    /\ Running
    /\ ~shell_hung
    /\ km_pc = "loop_handle"
    /\ handle_key(sh_key)
    /\ sh_key' = NoKey
    /\ km_pc' = "loop_read"
    /\ UNCHANGED <<km_arg, km_trace, smoke, inj, halted>>
    /\ UNCHANGED <<kernelVars, crateVars, ataVars, irqVars, bootVars, gallocVars>>

\* run(): the else branch, halt(): hlt
loop_halt ==
    /\ Running
    /\ ~shell_hung
    /\ km_pc = "loop_halt"
    /\ halted' = TRUE
    /\ km_pc' = "loop_read"
    /\ UNCHANGED <<km_arg, km_trace, smoke, inj, sh_key>>
    /\ UNCHANGED <<kernelVars, archExceptMain>>

\* IRQ 0 or IRQ 1 is taken while the shell runs or sleeps: the handler runs
\* to its end, a halted CPU goes on behind the hlt.
loop_irq(v, scancode) ==
    /\ ~cpu_hung
    /\ interrupt_flag
    /\ LET d == IF v \in idt THEN v ELSE 13
           r == interrupt_dispatch(d)
       IN  /\ last_vector' = [raised |-> v, dispatched |-> d]
           /\ port_log' = <<handler_ran(r.handler, d)>> \o r.eoi
           /\ cpu_hung' = ~r.returns
           /\ interrupt_flag' = IF r.returns THEN interrupt_flag ELSE FALSE
           /\ TICKS' = IF r.handler = "on_tick" THEN (TICKS + 1) % (2^TickBits) ELSE TICKS
           /\ kbd' = IF r.handler = "handle_irq" THEN feed_scancode(kbd, scancode).st
                     ELSE kbd
    /\ halted' = IF wakes(v) THEN FALSE ELSE halted
    /\ UNCHANGED <<idt, n_irqs, trk_pc, trk>>
    /\ UNCHANGED <<accepted, delivered, last_feed, n_feeds, n_events>>
    /\ UNCHANGED <<km_pc, km_arg, km_trace, smoke, inj, sh_key>>
    /\ UNCHANGED <<frameVars, heapVars, cacheVars>>
    /\ UNCHANGED <<crateVars, runVars, ataVars, bootVars, gallocVars>>

\* run() is entered from kernel_main: interrupts are enabled, the ring was
\* cleared by keyboard_smoke_test, the line and the history are empty
InitLoop ==
    /\ km_pc = "loop_read"
    /\ km_arg = 0
    /\ km_trace = <<>>
    /\ smoke = [k |-> 0, ok |-> TRUE]
    /\ inj = NoInject
    /\ halted = FALSE
    /\ sh_key = NoKey
    /\ interrupt_flag = TRUE
    /\ cpu_hung = FALSE
    /\ idt = InstalledGates
    /\ TICKS = 0
    /\ port_log = <<>>
    /\ last_vector = [raised |-> -1, dispatched |-> -1]
    /\ n_irqs = 0
    /\ trk_pc = "idle"
    /\ trk = NoRead
    /\ kbd = KeyboardState_new
    /\ accepted = <<>>
    /\ delivered = <<>>
    /\ last_feed = <<>>
    /\ n_feeds = 0
    /\ n_events = 0
    /\ line_buf = Zeros(MAX_LINE)
    /\ line_len = 0
    /\ history = <<>>
    /\ history_index = None
    /\ exec_out = NoExec
    /\ shell_hung = FALSE
    /\ FrameIdle
    /\ HeapIdle
    /\ CacheIdle
    /\ CrateIdle
    /\ AtaIdle
    /\ BootIdle
    /\ GallocIdle

\* the mainline executes its next instruction
Mainline == loop_read \/ loop_handle \/ loop_halt

\* the PIT raises IRQ 0
TimerIrq == loop_irq(IRQ_TIMER, 0)

\* the keyboard controller raises IRQ 1 with a scancode at port 0x60
KeyboardIrq == \E scancode \in RingScancodes : loop_irq(IRQ_KEYBOARD, scancode)

NextLoop ==
    \/ loop_read
    \/ loop_handle
    \/ loop_halt
    \/ TimerIrq
    \/ KeyboardIrq

SpecLoop == InitLoop /\ [][NextLoop]_vars

\* A CPU that is not halted executes; pic::set_masks leaves IRQ 0 unmasked
\* and pit::init programs a periodic tick, so the timer interrupt keeps
\* occurring while the interrupt flag is set.
SpecLoopFair == SpecLoop /\ WF_vars(Mainline) /\ WF_vars(TimerIrq)

-----------------------------------------------------------------------------
(* The shell loop: properties *)

\* slot k of the ring holds an event that has not been read
SlotUnread(k) ==
    \E d \in 0..(BUFFER_SIZE - 2) :
        /\ d < (kbd.head + BUFFER_SIZE - kbd.tail) % BUFFER_SIZE
        /\ k = (kbd.tail + d) % BUFFER_SIZE

\* C32: every key event the keyboard IRQ places into the ring is eventually
\* read, and every key read is eventually handled by the shell, as long as
\* interrupts keep occurring; this covers an event enqueued between the
\* empty check of try_read_key and the hlt.
C32_EveryKeyIsEventuallyHandled ==
    /\ \A k \in 0..(BUFFER_SIZE - 1) : SlotUnread(k) ~> ~SlotUnread(k)
    /\ (sh_key # NoKey) ~> (sh_key = NoKey)

\* an event was enqueued after the empty check, and the CPU sleeps in hlt
C32_Witness == halted /\ kbd.head # kbd.tail /\ km_pc = "loop_read"

=============================================================================
